---- MODULE Spec2Model ----
(***************************************************************************)
(* Relay server of the KakaoTalk human-in-the-loop bridge: the in-memory   *)
(* session store, question intake (POST /v1/sessions/:id/questions), the   *)
(* Kakao webhook (POST /webhook/kakao) and the long poll                   *)
(* (GET /v1/sessions/:id/replies), as one state machine.  Every action is  *)
(* one uninterrupted run of JavaScript on the Node.js event loop: a        *)
(* handler runs from one await / timer / I/O callback to the next without  *)
(* interleaving.  Time is counted in whole seconds.                         *)
(***************************************************************************)
EXTENDS Integers, Sequences, FiniteSets, TLC

VARIABLES
  multiUser,   \* webhook.ts isMultiUserMode (DDB table configured) and auth.ts cognitoEnabled
  sessions,    \* store.ts `sessions` map: session_id -> Session
  clock,       \* Date.now() / new Date(), in seconds
  nextUuid,    \* number of uuidv4() values handed out so far
  posts,       \* POST /questions requests that are in the auth middleware
  polls,       \* GET /replies requests that are in the auth middleware or suspended
  hooks,       \* POST /webhook/kakao requests that await a directory lookup
  resp,        \* the HTTP response sent last
  linkCodes,   \* linkCodes `store` map: code -> LinkCodeEntry
  chatbotUsers, \* user directory: user_id -> the chatbot_user_id saved on its row
  links,       \* POST /link-chatbot requests that are in the auth middleware or saving
  outbound,    \* kakaoSender: senderEnabled, the pushes in flight, the line logged last
  fn           \* the function being applied (function-level specifications), or the
               \* kakao.ask_user call the local bridge is serving

vars == <<multiUser, sessions, clock, nextUuid, posts, polls, hooks, resp, linkCodes, chatbotUsers, links,
         outbound, fn>>

----------------------------------------------------------------------------
(* Bounds of the model *)

\* the clock stops here
MaxClock == 2
\* uuidv4() values that can be generated (message ids and reply ids)
MaxUuid == 4
\* largest |wait_sec| tried on the wait-bound computation
MaxWaitInput == 62
\* longest replies list tried on the since filter
MaxReplies == 3

SessionIds == {"s1", "s2"}
PostSlots == {"p1", "p2"}
PollSlots == {"g1", "g2"}
HookSlots == {"h1"}
LinkSlots == {"l1"}
UserIds == {"u1", "u2"}

\* JavaScript undefined / null for string-valued fields
Undefined == "undefined"
\* JavaScript null for object-valued fields: the empty sequence; an object o is <<o>>
Null == <<>>

FIXED_USER_KEY == "kF"

----------------------------------------------------------------------------
(* store.ts *)

\* now(): the current time stamp
Now == clock

\* the sessions Map is a sequence of Session objects in insertion order (the order in
\* which Map.values() iterates)
SessionIdsOf(map) == {map[i].session_id : i \in DOMAIN map}
IndexOf(map, sessionId) == CHOOSE i \in DOMAIN map : map[i].session_id = sessionId

\* getSession; the caller tests membership first
getSession(map, sessionId) == map[IndexOf(map, sessionId)]

\* the map after an in-place mutation of one of its Session objects
WithSession(map, session) == [map EXCEPT ![IndexOf(map, session.session_id)] = session]

\* variant: every new session starts as WAITING_USER, whatever the caller asks for
NewSession_Waiting(sessionId, initialStatus, ownerUserId) ==
  [ session_id       |-> sessionId,
    status           |-> "WAITING_USER",
    pending_question |-> Null,
    replies          |-> <<>>,
    updated_at       |-> Now,
    owner_user_id    |-> ownerUserId ]

\* the Session object getOrCreateSession builds for an unknown id.  created_at (of
\* sessions, questions and replies) is written once and read by nothing: left out.
NewSession(sessionId, initialStatus, ownerUserId) ==
  [ session_id       |-> sessionId,
    status           |-> initialStatus,
    pending_question |-> Null,
    replies          |-> <<>>,
    updated_at       |-> Now,
    owner_user_id    |-> ownerUserId ]

\* variant: looking a session up refreshes its updated_at
getOrCreateSession_Touch(map, sessionId, initialStatus, ownerUserId) ==
  IF sessionId \in SessionIdsOf(map)
    THEN WithSession(map, [getSession(map, sessionId) EXCEPT !.updated_at = Now])
    ELSE Append(map, [ session_id       |-> sessionId,
                       status           |-> initialStatus,
                       pending_question |-> Null,
                       replies          |-> <<>>,
                       updated_at       |-> Now,
                       owner_user_id    |-> ownerUserId ])

\* variant: an existing session takes the status and the owner of the call
getOrCreateSession_Adopt(map, sessionId, initialStatus, ownerUserId) ==
  IF sessionId \in SessionIdsOf(map)
    THEN WithSession(map, [getSession(map, sessionId) EXCEPT
                             !.status = initialStatus, !.owner_user_id = ownerUserId])
    ELSE Append(map, [ session_id       |-> sessionId,
                       status           |-> initialStatus,
                       pending_question |-> Null,
                       replies          |-> <<>>,
                       updated_at       |-> Now,
                       owner_user_id    |-> ownerUserId ])

\* getOrCreateSession: the sessions map afterwards (an existing entry is kept as is)
getOrCreateSession(map, sessionId, initialStatus, ownerUserId) ==
  IF sessionId \in SessionIdsOf(map)
    THEN map
    ELSE Append(map, NewSession(sessionId, initialStatus, ownerUserId))

\* variant: the question is stored without the status change
setPendingQuestion_KeepStatus(session, question) ==
  [session EXCEPT !.pending_question = <<question>>,
                  !.updated_at = Now]

\* setPendingQuestion: the session afterwards
setPendingQuestion(session, question) ==
  [session EXCEPT !.pending_question = <<question>>,
                  !.status = "WAITING_USER",
                  !.updated_at = Now]

\* variant: the reply is stored and the status changed, the question stays
addReply_KeepPending(session, reply) ==
  [session EXCEPT !.replies = Append(@, reply),
                  !.status = "RESOLVED",
                  !.updated_at = Now]

\* variant: the reply is put in front (unshift instead of push)
addReply_Prepend(session, reply) ==
  [session EXCEPT !.replies = <<reply>> \o @,
                  !.pending_question = Null,
                  !.status = "RESOLVED",
                  !.updated_at = Now]

\* addReply: the session afterwards
addReply(session, reply) ==
  [session EXCEPT !.replies = Append(@, reply),
                  !.pending_question = Null,
                  !.status = "RESOLVED",
                  !.updated_at = Now]

\* variant: the scan keeps the first waiting session it meets
RECURSIVE ScanWaiting_First(_, _, _, _)
ScanWaiting_First(map, i, userId, latest) ==
  IF i > Len(map) THEN latest
  ELSE LET session == map[i]
           skip == \/ session.status # "WAITING_USER"
                   \/ (userId # Undefined /\ session.owner_user_id # userId)
       IN ScanWaiting_First(map, i + 1, userId,
                            IF ~skip /\ latest = Null THEN <<session>> ELSE latest)

\* variant: the scan looks at the sessions of every status
RECURSIVE ScanWaiting_AnyStatus(_, _, _, _)
ScanWaiting_AnyStatus(map, i, userId, latest) ==
  IF i > Len(map) THEN latest
  ELSE LET session == map[i]
           skip == userId # Undefined /\ session.owner_user_id # userId
           take == latest = Null \/ session.updated_at > latest[1].updated_at
       IN ScanWaiting_AnyStatus(map, i + 1, userId,
                                IF ~skip /\ take THEN <<session>> ELSE latest)

\* the loop of findMostRecentWaitingSession over map[i..], `latest` being the choice so
\* far (Null: none); scoped to one owner when userId is not Undefined
RECURSIVE ScanWaiting(_, _, _, _)
ScanWaiting(map, i, userId, latest) ==
  IF i > Len(map) THEN latest
  ELSE LET session == map[i]
           skip == \/ session.status # "WAITING_USER"
                   \/ (userId # Undefined /\ session.owner_user_id # userId)
           take == latest = Null \/ session.updated_at > latest[1].updated_at
       IN ScanWaiting(map, i + 1, userId,
                      IF ~skip /\ take THEN <<session>> ELSE latest)

\* findMostRecentWaitingSession(): <<session>> or Null
findMostRecentWaitingSession(map) == ScanWaiting(map, 1, Undefined, Null)

\* findMostRecentWaitingSessionForUser(userId): <<session>> or Null
findMostRecentWaitingSessionForUser(map, userId) == ScanWaiting(map, 1, userId, Null)

----------------------------------------------------------------------------
(* middleware/auth.ts *)

\* Authorization headers tried: none, the static AUTH_TOKEN, a valid Cognito JWT of a
\* user, a token that verifies as nothing
NoHeader == [kind |-> "none", sub |-> Undefined]
StaticToken == [kind |-> "static", sub |-> Undefined]
Jwt(u) == [kind |-> "jwt", sub |-> u]
BadToken == [kind |-> "bad", sub |-> Undefined]

cognitoEnabled == multiUser

NoAuth == [user_id |-> Undefined, method |-> Undefined]
StaticAuth == [user_id |-> "static-token", method |-> "static_token"]
CognitoAuth(sub) == [user_id |-> sub, method |-> "cognito_jwt"]

\* requireAuth up to its first asynchronous step: "next" (handler runs in the same
\* turn), "401" (answered in the same turn) or "verify" (verifyCognitoJwt is pending)
requireAuth(cred) ==
  IF cred.kind = "none" THEN "401"
  ELSE IF cred.kind = "static" THEN "next"
  ELSE IF ~cognitoEnabled THEN "401"
  ELSE "verify"

\* the outcome of verifyCognitoJwt(token): req.auth on success, NoAuth on rejection
verifyCognitoJwt(cred) ==
  IF cred.kind = "jwt" THEN CognitoAuth(cred.sub) ELSE NoAuth

----------------------------------------------------------------------------
(* routes/questions.ts *)

\* the request bodies tried (a missing field is "", a missing list <<>>); a choice is a
\* string of characters, text and severity are opaque
Body(text, severity, choices, target_user_id) ==
  [text |-> text, severity |-> severity, choices |-> choices,
   target_user_id |-> target_user_id]

PostBodies ==
  { Body("Deploy?", "WARNING", <<<<"Y", "e", "s">>, <<"N", "o">>>>, Undefined),
    Body("Restart?", "INFO", <<>>, "u1"),
    Body("", "WARNING", <<>>, Undefined),
    Body("Deploy?", "", <<>>, Undefined) }

\* MissingField that forgets the severity
MissingField_TextOnly(body) == body.text = ""

\* !text || !severity
MissingField(body) == body.text = "" \/ body.severity = ""

\* variant: the D-2 check is missing
PendingExists_Off(session) == FALSE

\* D-2: session.status === 'WAITING_USER' && session.pending_question
PendingExists(session) ==
  session.status = "WAITING_USER" /\ session.pending_question # Null

\* QuestionsHandler that looks the session up (and creates it) before it checks the
\* caller against target_user_id
QuestionsHandler_CreateFirst(map, session_id, body, auth) ==
  IF MissingField(body)
    THEN [map |-> map, status |-> 400, error |-> "BAD_REQUEST", message_id |-> 0]
  ELSE
    LET isCognitoAuth == auth.method = "cognito_jwt"
        ownerUserId ==
          IF isCognitoAuth
            THEN (IF body.target_user_id # Undefined
                    THEN body.target_user_id ELSE auth.user_id)
            ELSE Undefined
        map1 == getOrCreateSession(map, session_id, "WAITING_USER", ownerUserId)
        session == getSession(map1, session_id)
    IN IF isCognitoAuth /\ body.target_user_id # Undefined /\ body.target_user_id # ""
                        /\ auth.user_id # body.target_user_id
         THEN [map |-> map1, status |-> 403, error |-> "FORBIDDEN", message_id |-> 0]
       ELSE IF PendingExists(session)
         THEN [map |-> map1, status |-> 409, error |-> "PENDING_EXISTS",
               message_id |-> 0]
       ELSE
         LET message_id == nextUuid + 1
             question == [ message_id |-> message_id,
                           text       |-> body.text,
                           choices    |-> body.choices,
                           severity   |-> body.severity ]
         IN [ map        |-> WithSession(map1, setPendingQuestion(session, question)),
              status     |-> 201,
              error      |-> "",
              message_id |-> message_id ]

\* the handler of POST /v1/sessions/:session_id/questions, run in one turn:
\* the sessions map afterwards, and the HTTP status, the error code and the message_id
\* of the response
QuestionsHandler(map, session_id, body, auth) ==
  IF MissingField(body)
    THEN [map |-> map, status |-> 400, error |-> "BAD_REQUEST", message_id |-> 0]
  ELSE
    LET isCognitoAuth == auth.method = "cognito_jwt" IN
    IF isCognitoAuth /\ body.target_user_id # Undefined /\ body.target_user_id # ""
                     /\ auth.user_id # body.target_user_id
      THEN [map |-> map, status |-> 403, error |-> "FORBIDDEN", message_id |-> 0]
    ELSE
      LET ownerUserId ==
            IF isCognitoAuth
              THEN (IF body.target_user_id # Undefined
                      THEN body.target_user_id ELSE auth.user_id)
              ELSE Undefined
          map1 == getOrCreateSession(map, session_id, "WAITING_USER", ownerUserId)
          session == getSession(map1, session_id)
      IN IF PendingExists(session)
           THEN [map |-> map1, status |-> 409, error |-> "PENDING_EXISTS",
                 message_id |-> 0]
           ELSE
             LET message_id == nextUuid + 1   \* generateMessageId()
                 question == [ message_id |-> message_id,
                               text       |-> body.text,
                               choices    |-> body.choices,
                               severity   |-> body.severity ]
             IN [ map        |-> WithSession(map1, setPendingQuestion(session, question)),
                  status     |-> 201,
                  error      |-> "",
                  message_id |-> message_id ]

----------------------------------------------------------------------------
(* POST /v1/sessions/:session_id/questions as requests *)

Credentials == {StaticToken, BadToken} \cup {Jwt(u) : u \in UserIds}

\* a request slot nobody uses
NoPost ==
  [ pc |-> "idle", session_id |-> Undefined, body |-> Body("", "", <<>>, Undefined),
    cred |-> NoHeader, rival |-> Null ]

NoResponse == [kind |-> "none"]

RepliesOf(map, sessionId) ==
  IF sessionId \in SessionIdsOf(map) THEN getSession(map, sessionId).replies ELSE <<>>

HasPending(map, sessionId) ==
  sessionId \in SessionIdsOf(map) /\ getSession(map, sessionId).pending_question # Null

\* res.status(..).json(..) of the questions route and of the middleware in front of it:
\* 201 with {session_id, message_id, status}, else {error, message}
PostResponse(session_id, status, error, message_id) ==
  IF status = 201
    THEN [kind |-> "post", status |-> 201, session_id |-> session_id,
          message_id |-> message_id, session_status |-> "WAITING_USER"]
    ELSE [kind |-> "post", status |-> status, error |-> error]

\* outbound/kakaoSender.ts createSender(): `enabled` is false for the NoopKakaoSender
\* that a missing or "noop" KAKAO_PROVIDER selects
Outbound(enabled) == [enabled |-> enabled, sending |-> {}, log |-> "none"]

SenderOff == Outbound(FALSE)

SenderOn == Outbound(TRUE)

\* how a sendQuestion promise settles: resolved {ok: true}, resolved {ok: false},
\* or rejected
SendOutcomes == {"ok", "failed", "rejected"}

\* questions.ts after res.status(201).json(..): kakaoSender.sendQuestion(..) is started
\* and not awaited, or the disabled sender is logged
Push(out, message_id) ==
  IF out.enabled THEN [out EXCEPT !.sending = @ \cup {message_id}]
                 ELSE [out EXCEPT !.log = "sender_disabled"]

\* the middleware answers 401
PostRejected(p, req) ==
  /\ resp' = PostResponse(req.session_id, 401, "UNAUTHORIZED", 0)
  /\ posts' = [posts EXCEPT ![p] = NoPost]
  /\ UNCHANGED <<sessions, nextUuid, outbound>>

\* The handler runs for request `req`, authenticated as `auth`.  `rival` is no part of
\* the program: a request still in the middleware notes there the question that a
\* concurrent request installed in its session, and the number of replies then.
PostHandled(p, req, auth) ==
  LET h == QuestionsHandler(sessions, req.session_id, req.body, auth)
      note == <<[message_id |-> h.message_id,
                 replies |-> Len(RepliesOf(sessions, req.session_id))]>>
  IN
  /\ h.status = 201 => nextUuid < MaxUuid
  /\ sessions' = h.map
  /\ nextUuid' = IF h.status = 201 THEN h.message_id ELSE nextUuid
  /\ resp' = PostResponse(req.session_id, h.status, h.error, h.message_id)
  /\ outbound' = IF h.status = 201 THEN Push(outbound, h.message_id) ELSE outbound
  /\ posts' = [q \in PostSlots |->
                 IF q = p THEN NoPost
                 ELSE IF /\ posts[q].pc = "auth"
                         /\ posts[q].session_id = req.session_id
                         /\ h.status = 201
                        THEN [posts[q] EXCEPT !.rival = note]
                        ELSE posts[q]]

\* a POST request arrives and runs up to its first asynchronous step
PostArrive(p, session_id, body, cred) ==
  /\ posts[p].pc = "idle"
  /\ LET req == [NoPost EXCEPT !.session_id = session_id, !.body = body, !.cred = cred]
     IN CASE requireAuth(cred) = "401" -> PostRejected(p, req)
          [] requireAuth(cred) = "next" -> PostHandled(p, req, StaticAuth)
          [] OTHER ->
               /\ posts' = [posts EXCEPT ![p] = [req EXCEPT !.pc = "auth"]]
               /\ UNCHANGED <<sessions, nextUuid, resp, outbound>>
  /\ UNCHANGED <<multiUser, clock, polls, hooks, linkCodes, chatbotUsers, links, fn>>

\* verifyCognitoJwt settles: the middleware answers 401 or calls the handler
PostVerified(p) ==
  /\ posts[p].pc = "auth"
  /\ LET auth == verifyCognitoJwt(posts[p].cred) IN
       IF auth = NoAuth THEN PostRejected(p, posts[p])
                        ELSE PostHandled(p, posts[p], auth)
  /\ UNCHANGED <<multiUser, clock, polls, hooks, linkCodes, chatbotUsers, links, fn>>

\* a push that takes its failure to the request: the question is withdrawn and the
\* response becomes 502
SendSettled_Withdraw(m, outcome) ==
  /\ m \in outbound.sending
  /\ outbound' = [outbound EXCEPT !.sending = @ \ {m},
                                  !.log = IF outcome = "ok" THEN "sender_ok" ELSE "send_failed"]
  /\ IF outcome = "ok"
       THEN UNCHANGED <<sessions, resp>>
       ELSE /\ sessions' = [i \in 1..Len(sessions) |->
                              IF /\ sessions[i].pending_question # Null
                                 /\ sessions[i].pending_question[1].message_id = m
                                THEN [sessions[i] EXCEPT !.pending_question = Null,
                                                         !.status = "IDLE"]
                                ELSE sessions[i]]
            /\ resp' = [kind |-> "post", status |-> 502, error |-> "SEND_FAILED"]
  /\ UNCHANGED <<multiUser, clock, nextUuid, posts, polls, hooks, linkCodes, chatbotUsers, links, fn>>

\* The sendQuestion promise of message `m` settles.  Resolved, the sender has logged
\* [sender_ok] or [send_failed] itself; rejected, the .catch of the route logs
\* [send_failed].  Nothing reads the result.
SendSettled(m, outcome) ==
  /\ m \in outbound.sending
  /\ outbound' = [outbound EXCEPT !.sending = @ \ {m},
                                  !.log = IF outcome = "ok" THEN "sender_ok" ELSE "send_failed"]
  /\ UNCHANGED <<multiUser, sessions, clock, nextUuid, posts, polls, hooks, resp, linkCodes,
                 chatbotUsers, links, fn>>

----------------------------------------------------------------------------
(* routes/replies.ts *)

DefaultWaitSec == 25
MaxWaitSec == 60
\* setTimeout(poll, 1000)
RecheckSec == 1

Min(a, b) == IF a < b THEN a ELSE b
Max(a, b) == IF a > b THEN a ELSE b

\* A query parameter is a string of characters; a missing parameter is undefined, which
\* parseInt reads as the string "undefined".
NoParam == <<"u", "n", "d", "e", "f", "i", "n", "e", "d">>
DigitChars == <<"0", "1", "2", "3", "4", "5", "6", "7", "8", "9">>
IsDigit(c) == \E i \in 1..10 : DigitChars[i] = c
DigitValue(c) == (CHOOSE i \in 1..10 : DigitChars[i] = c) - 1
IsSpace(c) == c \in {" ", "\t", "\n"}

NaN == <<>>

\* the digits of str from position i on, acc being the value read so far
RECURSIVE ParseDigits(_, _, _, _)
ParseDigits(str, i, acc, any) ==
  IF i <= Len(str) /\ IsDigit(str[i])
    THEN ParseDigits(str, i + 1, acc * 10 + DigitValue(str[i]), TRUE)
    ELSE IF any THEN <<acc>> ELSE NaN

RECURSIVE SkipSpaces(_, _)
SkipSpaces(str, i) ==
  IF i <= Len(str) /\ IsSpace(str[i]) THEN SkipSpaces(str, i + 1) ELSE i

\* parseInt(str, 10): <<n>>, or NaN.  Leading white space, an optional sign, then the
\* longest run of digits.
parseInt(str) ==
  LET i == SkipSpaces(str, 1)
      signed == i <= Len(str) /\ str[i] \in {"-", "+"}
      negative == signed /\ str[i] = "-"
      digits == ParseDigits(str, IF signed THEN i + 1 ELSE i, 0, FALSE)
  IN IF digits = NaN THEN NaN
     ELSE IF negative THEN <<0 - digits[1]>> ELSE digits

\* x || d on a number: NaN and 0 are falsy
OrElse(x, d) == IF x = NaN \/ x = <<0>> THEN d ELSE x[1]

\* const waitSec = Math.min(Math.max(parseInt(wait_sec, 10) || 25, 0), 60)
waitSec(wait_sec) ==
  Min(Max(OrElse(parseInt(wait_sec), DefaultWaitSec), 0), MaxWaitSec)

\* since: a reply id, or NoSince when the parameter is missing or empty
NoSince == 0

\* replies.findIndex(r => r.reply_id === sinceId): 0 when there is none (-1 in the code)
findIndex(replies, sinceId) ==
  IF \E i \in DOMAIN replies : replies[i].reply_id = sinceId
    THEN CHOOSE i \in DOMAIN replies :
           /\ replies[i].reply_id = sinceId
           /\ \A j \in 1..(i - 1) : replies[j].reply_id # sinceId
    ELSE 0

\* variant: slice(idx) instead of slice(idx + 1)
collectReplies_Inclusive(replies, sinceId) ==
  IF sinceId # NoSince /\ findIndex(replies, sinceId) >= 1
    THEN SubSeq(replies, findIndex(replies, sinceId), Len(replies))
    ELSE replies

\* collectReplies()
collectReplies(replies, sinceId) ==
  IF sinceId # NoSince /\ findIndex(replies, sinceId) >= 1
    THEN SubSeq(replies, findIndex(replies, sinceId) + 1, Len(replies))
    ELSE replies

\* variant: the wait bound is left out of the deadline
Deadline_Immediate(wait_sec) == Now

\* the deadline of the long poll: Date.now() + waitSec * 1000
Deadline(wait_sec) == Now + waitSec(wait_sec)

\* variant: poll() looks at the deadline alone
PollAnswers_DeadlineOnly(replies, deadline) == Now >= deadline

\* poll(): answer when there is something to report or the time is up
PollAnswers(replies, deadline) == Len(replies) > 0 \/ Now >= deadline

NoPoll ==
  [ pc |-> "idle", session_id |-> Undefined, since |-> NoSince, wait_sec |-> NoParam,
    cred |-> NoHeader, deadline |-> 0, due |-> 0, closed |-> FALSE ]

\* res.json(..) of the replies route (status 200), and the 401 of the middleware
PollResponse(session_id, httpStatus, status, replies) ==
  IF httpStatus = 200
    THEN [kind |-> "poll", status |-> 200, session_id |-> session_id,
          session_status |-> status, replies |-> replies]
    ELSE [kind |-> "poll", status |-> httpStatus, error |-> "UNAUTHORIZED"]

PollRejected(g, req) ==
  /\ resp' = PollResponse(req.session_id, 401, Undefined, <<>>)
  /\ polls' = [polls EXCEPT ![g] = NoPoll]
  /\ UNCHANGED sessions

\* the handler runs up to its first setTimeout
PollHandled(g, req) ==
  LET map1 == getOrCreateSession(sessions, req.session_id, "IDLE", Undefined)
      session == getSession(map1, req.session_id)
      immediate == collectReplies(session.replies, req.since)
  IN /\ sessions' = map1
     /\ IF Len(immediate) > 0
          THEN /\ resp' = PollResponse(req.session_id, 200, session.status, immediate)
               /\ polls' = [polls EXCEPT ![g] = NoPoll]
          ELSE /\ polls' = [polls EXCEPT ![g] =
                     [req EXCEPT !.pc = "waiting",
                                 !.deadline = Deadline(req.wait_sec),
                                 !.due = Now + RecheckSec]]
               /\ UNCHANGED resp

\* a GET request arrives and runs up to its first asynchronous step; since is a reply_id
\* the client has seen, some other identifier that was handed out, or nothing
PollArrive(g, session_id, since, wait_sec, cred) ==
  /\ polls[g].pc = "idle"
  /\ since \in 0..nextUuid
  /\ LET req == [NoPoll EXCEPT !.session_id = session_id, !.since = since,
                               !.wait_sec = wait_sec, !.cred = cred]
     IN CASE requireAuth(cred) = "401" -> PollRejected(g, req)
          [] requireAuth(cred) = "next" -> PollHandled(g, req)
          [] OTHER ->
               /\ polls' = [polls EXCEPT ![g] = [req EXCEPT !.pc = "auth"]]
               /\ UNCHANGED <<sessions, resp>>
  /\ UNCHANGED <<multiUser, clock, nextUuid, posts, hooks, linkCodes, chatbotUsers, links, outbound, fn>>

PollVerified(g) ==
  /\ polls[g].pc = "auth"
  /\ IF verifyCognitoJwt(polls[g].cred) = NoAuth
       THEN PollRejected(g, polls[g])
       ELSE PollHandled(g, polls[g])
  /\ UNCHANGED <<multiUser, clock, nextUuid, posts, hooks, linkCodes, chatbotUsers, links, outbound, fn>>

\* the caller gives up the connection of a suspended poll: the 'close' listener runs.
\* Its body is empty: the timer that is pending is not cleared and nothing is noted
\* for poll() to look at.
PollClosed(g) ==
  /\ polls[g].pc = "waiting"
  /\ ~polls[g].closed
  /\ polls' = [polls EXCEPT ![g].closed = TRUE]
  /\ UNCHANGED <<multiUser, sessions, clock, nextUuid, posts, hooks, resp, linkCodes, chatbotUsers, links, outbound, fn>>

\* variant: a session whose replies have been delivered is made idle again
PollRecheck_Reset(g) ==
  /\ polls[g].pc = "waiting"
  /\ Now >= polls[g].due
  /\ LET session == getSession(sessions, polls[g].session_id)
         replies == collectReplies(session.replies, polls[g].since)
     IN IF PollAnswers(replies, polls[g].deadline)
          THEN /\ resp' = PollResponse(polls[g].session_id, 200, session.status, replies)
               /\ polls' = [polls EXCEPT ![g] = NoPoll]
               /\ sessions' = IF replies # <<>>
                                THEN WithSession(sessions, [session EXCEPT !.status = "IDLE"])
                                ELSE sessions
          ELSE /\ polls' = [polls EXCEPT ![g].due = Now + RecheckSec]
               /\ UNCHANGED <<resp, sessions>>
  /\ UNCHANGED <<multiUser, clock, nextUuid, posts, hooks, linkCodes, chatbotUsers, links, outbound, fn>>

\* variant: the replies a poll delivers are taken out of the session
PollRecheck_Consume(g) ==
  /\ polls[g].pc = "waiting"
  /\ Now >= polls[g].due
  /\ LET session == getSession(sessions, polls[g].session_id)
         replies == collectReplies(session.replies, polls[g].since)
     IN IF PollAnswers(replies, polls[g].deadline)
          THEN /\ resp' = PollResponse(polls[g].session_id, 200, session.status, replies)
               /\ polls' = [polls EXCEPT ![g] = NoPoll]
               /\ sessions' = WithSession(sessions, [session EXCEPT !.replies = <<>>])
          ELSE /\ polls' = [polls EXCEPT ![g].due = Now + RecheckSec]
               /\ UNCHANGED <<resp, sessions>>
  /\ UNCHANGED <<multiUser, clock, nextUuid, posts, hooks, linkCodes, chatbotUsers, links, outbound, fn>>

\* the timer fires: poll()
PollRecheck(g) ==
  /\ polls[g].pc = "waiting"
  /\ Now >= polls[g].due
  /\ LET session == getSession(sessions, polls[g].session_id)
         replies == collectReplies(session.replies, polls[g].since)
     IN IF PollAnswers(replies, polls[g].deadline)
          THEN /\ resp' = PollResponse(polls[g].session_id, 200, session.status, replies)
               /\ polls' = [polls EXCEPT ![g] = NoPoll]
          ELSE /\ polls' = [polls EXCEPT ![g].due = Now + RecheckSec]
               /\ UNCHANGED resp
  /\ UNCHANGED <<multiUser, sessions, clock, nextUuid, posts, hooks, linkCodes, chatbotUsers, links, outbound, fn>>

----------------------------------------------------------------------------
(* Strings of characters *)

UpperChars == <<"A", "B", "C", "D", "E", "F", "G", "H", "I", "J", "K", "L", "M",
                "N", "O", "P", "Q", "R", "S", "T", "U", "V", "W", "X", "Y", "Z">>
LowerChars == <<"a", "b", "c", "d", "e", "f", "g", "h", "i", "j", "k", "l", "m",
                "n", "o", "p", "q", "r", "s", "t", "u", "v", "w", "x", "y", "z">>

\* String.prototype.toLowerCase on strings of characters
toLowerCase(str) ==
  [i \in DOMAIN str |->
     IF \E k \in 1..26 : UpperChars[k] = str[i]
       THEN LowerChars[CHOOSE k \in 1..26 : UpperChars[k] = str[i]]
       ELSE str[i]]

\* String.prototype.toUpperCase on strings of characters
toUpperCase(str) ==
  [i \in DOMAIN str |->
     IF \E k \in 1..26 : LowerChars[k] = str[i]
       THEN UpperChars[CHOOSE k \in 1..26 : LowerChars[k] = str[i]]
       ELSE str[i]]

----------------------------------------------------------------------------
(* store/linkCodes.ts *)

\* LINK_CODE_TTL_MS, in seconds
LINK_CODE_TTL == 600

\* cleanExpired(): the store without the entries older than the TTL
cleanExpired(store) ==
  [c \in {x \in DOMAIN store : ~(Now - store[x].created_at > LINK_CODE_TTL)} |-> store[c]]

\* createLinkCode(chatbotUserId), `code` being the six hex digits drawn
createLinkCode(store, chatbotUserId, code) ==
  LET kept == cleanExpired(store)
      entry == [chatbot_user_id |-> chatbotUserId, created_at |-> Now]
  IN [c \in DOMAIN kept \cup {code} |-> IF c = code THEN entry ELSE kept[c]]

\* resolveLinkCode that leaves a code it has resolved in the store
resolveLinkCode_Reusable(store, code) ==
  LET key == toUpperCase(code)
      removed == [c \in DOMAIN store \ {key} |-> store[c]]
  IN IF key \notin DOMAIN store
       THEN [out |-> Null, store |-> store]
     ELSE IF Now - store[key].created_at > LINK_CODE_TTL
       THEN [out |-> Null, store |-> removed]
     ELSE [out |-> <<store[key].chatbot_user_id>>, store |-> store]

\* resolveLinkCode(code): the chatbot_user_id (<<id>>) or null, and the store afterwards;
\* an entry that is found is deleted whether it has expired or not
resolveLinkCode(store, code) ==
  LET key == toUpperCase(code)
      removed == [c \in DOMAIN store \ {key} |-> store[c]]
  IN IF key \notin DOMAIN store
       THEN [out |-> Null, store |-> store]
     ELSE IF Now - store[key].created_at > LINK_CODE_TTL
       THEN [out |-> Null, store |-> removed]
     ELSE [out |-> <<store[key].chatbot_user_id>>, store |-> removed]

----------------------------------------------------------------------------
(* services/tokenVault.ts: the user directory (DynamoDB), read by the webhook *)

\* kakao_user_key-index: the channel identities linked by Kakao OAuth
KakaoUserKeyIndex == [k \in {"kA", "kB"} |-> IF k = "kA" THEN "u1" ELSE "u2"]

\* getUserIdByKakaoUserKey / getUserIdByChatbotUserId: the user id or null.  A lookup
\* that throws leaves userId null in the webhook.
Lookup(index, key) == IF key \in DOMAIN index THEN index[key] ELSE Undefined

\* saveChatbotUserId(userId, chatbotUserId): the row of userId gets the attribute
saveChatbotUserId(rows, userId, chatbotUserId) ==
  [u \in DOMAIN rows \cup {userId} |-> IF u = userId THEN chatbotUserId ELSE rows[u]]

\* getUserIdByChatbotUserId(key): what the query of the chatbot_user_id index with
\* Limit 1 can return, one of the rows holding the key, or null when there is none
getUserIdByChatbotUserId(rows, key) ==
  IF \E u \in DOMAIN rows : rows[u] = key
    THEN {u \in DOMAIN rows : rows[u] = key}
    ELSE {Undefined}

----------------------------------------------------------------------------
(* routes/webhook.ts *)

RECURSIVE SkipSpacesBack(_, _)
SkipSpacesBack(str, j) ==
  IF j >= 1 /\ IsSpace(str[j]) THEN SkipSpacesBack(str, j - 1) ELSE j

\* String.prototype.trim
trim(str) == SubSeq(str, SkipSpaces(str, 1), SkipSpacesBack(str, Len(str)))

\* variant: the text is case-folded but not trimmed
Normalize_NoTrim(str) == toLowerCase(str)

\* userText.trim().toLowerCase()
Normalize(str) == toLowerCase(trim(str))

\* the second keyword is the two Hangul syllables U+C9C8 U+BB38
QUERY_KEYWORDS == { <<"p", "e", "n", "d", "i", "n", "g">>, <<"U+C9C8", "U+BB38">>, <<"?">> }

\* the payload of a webhook call: the three places of the channel identity (Undefined
\* when missing) and the two places of the text (Null when missing, else <<string>>)
Payload(appUserId, kakaoUserId, user_key, utterance, text) ==
  [appUserId |-> appUserId, kakaoUserId |-> kakaoUserId, user_key |-> user_key,
   utterance |-> utterance, text |-> text]

\* appUserId ?? kakaoUserId ?? req.body?.user_key
UserKeyOf(body) ==
  IF body.appUserId # Undefined THEN body.appUserId
  ELSE IF body.kakaoUserId # Undefined THEN body.kakaoUserId
  ELSE body.user_key

\* utterance ?? req.body?.text ?? ''
UserTextOf(body) ==
  IF body.utterance # Null THEN body.utterance[1]
  ELSE IF body.text # Null THEN body.text[1]
  ELSE <<>>

\* choices.find(c => c.trim().toLowerCase() === normalizedText): <<choice>> or Null
RECURSIVE FindChoice(_, _, _)
FindChoice(choices, i, normalizedText) ==
  IF i > Len(choices) THEN Null
  ELSE IF Normalize(choices[i]) = normalizedText THEN <<choices[i]>>
  ELSE FindChoice(choices, i + 1, normalizedText)

\* variant: a text that matches no choice is recorded as a cancellation
Classify_Cancel(question, normalizedText) ==
  LET matched == IF question # Null /\ Len(question[1].choices) > 0
                   THEN FindChoice(question[1].choices, 1, normalizedText)
                   ELSE Null
  IN IF matched # Null /\ matched[1] # <<>>
       THEN [type |-> "CHOICE", choice |-> matched]
       ELSE IF question # Null /\ Len(question[1].choices) > 0
              THEN [type |-> "CANCEL", choice |-> Null]
              ELSE [type |-> "TEXT", choice |-> Null]

\* Classify that takes any matched candidate, the empty string too, as a choice
Classify_AnyMatch(question, normalizedText) ==
  LET matched == IF question # Null /\ Len(question[1].choices) > 0
                   THEN FindChoice(question[1].choices, 1, normalizedText)
                   ELSE Null
  IN IF matched # Null
       THEN [type |-> "CHOICE", choice |-> matched]
       ELSE [type |-> "TEXT", choice |-> Null]

\* the reply the answer branch builds for `question` (<<q>> or Null): type and choice.
\* `if (matched)` is false for a matched empty string.
Classify(question, normalizedText) ==
  LET matched == IF question # Null /\ Len(question[1].choices) > 0
                   THEN FindChoice(question[1].choices, 1, normalizedText)
                   ELSE Null
  IN IF matched # Null /\ matched[1] # <<>>
       THEN [type |-> "CHOICE", choice |-> matched]
       ELSE [type |-> "TEXT", choice |-> Null]

\* res.json(..) of the webhook: always status 200
HookResponse(outcome, session_id, detail) ==
  [kind |-> "hook", status |-> 200, outcome |-> outcome, session_id |-> session_id,
   detail |-> detail]

NoHook == [pc |-> "idle", userKey |-> Undefined, userText |-> <<>>]

\* SelectSession with the global scan whoever the user is
SelectSession_Global(map, userId) == findMostRecentWaitingSession(map)

\* the session the message is for: scoped to userId, or global when userId is null
SelectSession(map, userId) ==
  IF userId # Undefined
    THEN findMostRecentWaitingSessionForUser(map, userId)
    ELSE findMostRecentWaitingSession(map)

\* variant: a message that finds no waiting session is stored in the first session
HookRouted_StoreAnyway(h, userId, userText) ==
  LET found == SelectSession(sessions, userId)
      reply == [ reply_id |-> nextUuid + 1, type |-> "TEXT",
                 text |-> IF userText = <<>> THEN Null ELSE <<userText>>,
                 choice |-> Null ]
  IN
  /\ hooks' = [hooks EXCEPT ![h] = NoHook]
  /\ UNCHANGED linkCodes
  /\ nextUuid < MaxUuid
  /\ nextUuid' = nextUuid + 1
  /\ resp' = HookResponse(IF found = Null THEN "no_waiting_session" ELSE "reply_stored",
                          Undefined, Null)
  /\ sessions' = IF sessions = <<>> THEN sessions
                 ELSE WithSession(sessions,
                        addReply(IF found = Null THEN sessions[1] ELSE found[1], reply))

\* variant: the reply is stored in every waiting session the sender may answer
HookRouted_Broadcast(h, userId, userText) ==
  LET normalizedText == Normalize(userText)
      isQueryMode == normalizedText \in QUERY_KEYWORDS
      found == SelectSession(sessions, userId)
  IN
  /\ hooks' = [hooks EXCEPT ![h] = NoHook]
  /\ UNCHANGED linkCodes
  /\ IF found = Null
       THEN /\ resp' = HookResponse("no_waiting_session", Undefined, Null)
            /\ UNCHANGED <<sessions, nextUuid>>
     ELSE IF isQueryMode
       THEN /\ resp' = HookResponse("query_mode", found[1].session_id,
                                    found[1].pending_question)
            /\ UNCHANGED <<sessions, nextUuid>>
     ELSE
       LET session == found[1]
           class == Classify(session.pending_question, normalizedText)
           reply == [ reply_id |-> nextUuid + 1,
                      type     |-> class.type,
                      text     |-> IF userText = <<>> THEN Null ELSE <<userText>>,
                      choice   |-> class.choice ]
       IN /\ nextUuid < MaxUuid
          /\ nextUuid' = nextUuid + 1
          /\ sessions' = [i \in DOMAIN sessions |->
               IF /\ sessions[i].status = "WAITING_USER"
                  /\ (userId = Undefined \/ sessions[i].owner_user_id = userId)
                 THEN addReply(sessions[i], reply) ELSE sessions[i]]
          /\ resp' = HookResponse("reply_stored", session.session_id, <<reply>>)

\* The handler from "query keyword" on, run in one turn with the resolved userId
\* (Undefined: null, global search).
HookRouted(h, userId, userText) ==
  LET normalizedText == Normalize(userText)
      isQueryMode == normalizedText \in QUERY_KEYWORDS
      found == SelectSession(sessions, userId)
  IN
  /\ hooks' = [hooks EXCEPT ![h] = NoHook]
  /\ UNCHANGED linkCodes
  /\ IF found = Null
       THEN /\ resp' = HookResponse("no_waiting_session", Undefined, Null)
            /\ UNCHANGED <<sessions, nextUuid>>
     ELSE IF isQueryMode
       THEN /\ resp' = HookResponse("query_mode", found[1].session_id,
                                    found[1].pending_question)
            /\ UNCHANGED <<sessions, nextUuid>>
     ELSE
       LET session == found[1]
           class == Classify(session.pending_question, normalizedText)
           reply == [ reply_id |-> nextUuid + 1,     \* generateReplyId()
                      type     |-> class.type,
                      text     |-> IF userText = <<>> THEN Null ELSE <<userText>>,
                      choice   |-> class.choice ]
       IN /\ nextUuid < MaxUuid
          /\ nextUuid' = nextUuid + 1
          /\ sessions' = WithSession(sessions, addReply(session, reply))
          /\ resp' = HookResponse("reply_stored", session.session_id, <<reply>>)

\* HookResolved without the FIXED_USER_KEY fallback: every unmapped sender is to link
HookResolved_NoFallback(h, userKey, userText, userId, code) ==
  IF userId = Undefined
    THEN /\ linkCodes' = createLinkCode(linkCodes, userKey, code)
         /\ resp' = HookResponse("unlinked_user", Undefined, <<code>>)
         /\ hooks' = [hooks EXCEPT ![h] = NoHook]
         /\ UNCHANGED <<sessions, nextUuid>>
  ELSE HookRouted(h, userId, userText)

\* the end of user resolution in multi-user mode, userId being what the lookups gave
HookResolved(h, userKey, userText, userId, code) ==
  IF userId = Undefined /\ FIXED_USER_KEY # "" /\ userKey = FIXED_USER_KEY
    THEN HookRouted(h, Undefined, userText)
  ELSE IF userId = Undefined
    THEN /\ linkCodes' = createLinkCode(linkCodes, userKey, code)
         /\ resp' = HookResponse("unlinked_user", Undefined, <<code>>)
         /\ hooks' = [hooks EXCEPT ![h] = NoHook]
         /\ UNCHANGED <<sessions, nextUuid>>
  ELSE HookRouted(h, userId, userText)

\* HookArrive without the Mode A check of the sender
HookArrive_AnySender(h, body) ==
  LET userKey == UserKeyOf(body)
      userText == UserTextOf(body)
  IN
  /\ hooks[h].pc = "idle"
  /\ IF userKey = Undefined \/ userKey = ""
       THEN /\ resp' = HookResponse("no_user_key", Undefined, Null)
            /\ UNCHANGED <<sessions, nextUuid, hooks, linkCodes>>
     ELSE IF multiUser
       THEN /\ hooks' = [hooks EXCEPT ![h] =
                  [pc |-> "lookup1", userKey |-> userKey, userText |-> userText]]
            /\ UNCHANGED <<sessions, nextUuid, resp, linkCodes>>
     ELSE HookRouted(h, Undefined, userText)
  /\ UNCHANGED <<multiUser, clock, posts, polls, chatbotUsers, links, outbound, fn>>

\* a webhook call arrives and runs up to its first await
HookArrive(h, body) ==
  LET userKey == UserKeyOf(body)
      userText == UserTextOf(body)
  IN
  /\ hooks[h].pc = "idle"
  /\ IF userKey = Undefined \/ userKey = ""
       THEN /\ resp' = HookResponse("no_user_key", Undefined, Null)
            /\ UNCHANGED <<sessions, nextUuid, hooks, linkCodes>>
     ELSE IF multiUser
       THEN /\ hooks' = [hooks EXCEPT ![h] =
                  [pc |-> "lookup1", userKey |-> userKey, userText |-> userText]]
            /\ UNCHANGED <<sessions, nextUuid, resp, linkCodes>>
     ELSE IF userKey # FIXED_USER_KEY
       THEN /\ resp' = HookResponse("rejected_user", Undefined, Null)
            /\ UNCHANGED <<sessions, nextUuid, hooks, linkCodes>>
     ELSE HookRouted(h, Undefined, userText)
  /\ UNCHANGED <<multiUser, clock, posts, polls, chatbotUsers, links, outbound, fn>>

\* HookLookup1 without the try/catch around the lookup: the failure ends the call
HookLookup1_Uncaught(h, throws) ==
  /\ hooks[h].pc = "lookup1"
  /\ IF throws
       THEN /\ resp' = [HookResponse("error", Undefined, Null) EXCEPT !.status = 500]
            /\ hooks' = [hooks EXCEPT ![h] = NoHook]
            /\ UNCHANGED <<sessions, nextUuid, linkCodes>>
       ELSE LET userId == Lookup(KakaoUserKeyIndex, hooks[h].userKey)
            IN IF userId = Undefined
                 THEN /\ hooks' = [hooks EXCEPT ![h].pc = "lookup2"]
                      /\ UNCHANGED <<sessions, nextUuid, resp, linkCodes>>
                 ELSE HookRouted(h, userId, hooks[h].userText)
  /\ UNCHANGED <<multiUser, clock, posts, polls, chatbotUsers, links, outbound, fn>>

\* getUserIdByKakaoUserKey settles (throws = TRUE: it failed)
HookLookup1(h, throws) ==
  /\ hooks[h].pc = "lookup1"
  /\ LET userId == IF throws THEN Undefined
                   ELSE Lookup(KakaoUserKeyIndex, hooks[h].userKey)
     IN IF userId = Undefined
          THEN /\ hooks' = [hooks EXCEPT ![h].pc = "lookup2"]
               /\ UNCHANGED <<sessions, nextUuid, resp, linkCodes>>
          ELSE HookRouted(h, userId, hooks[h].userText)
  /\ UNCHANGED <<multiUser, clock, posts, polls, chatbotUsers, links, outbound, fn>>

\* HookLookup2 that never finds a user: the chatbot_user_id index is not asked
HookLookup2_NoChatbotIndex(h, throws, code) ==
  /\ hooks[h].pc = "lookup2"
  /\ HookResolved(h, hooks[h].userKey, hooks[h].userText, Undefined, code)
  /\ UNCHANGED <<multiUser, clock, posts, polls, chatbotUsers, links, outbound, fn>>

\* getUserIdByChatbotUserId settles (throws = TRUE: it failed); `code` is the link
\* code drawn if one is needed
HookLookup2(h, throws, code) ==
  /\ hooks[h].pc = "lookup2"
  /\ \E userId \in IF throws THEN {Undefined}
                   ELSE getUserIdByChatbotUserId(chatbotUsers, hooks[h].userKey) :
       HookResolved(h, hooks[h].userKey, hooks[h].userText, userId, code)
  /\ UNCHANGED <<multiUser, clock, posts, polls, chatbotUsers, links, outbound, fn>>

----------------------------------------------------------------------------
(* routes/linkChatbot.ts *)

\* the body of a link request: link_code (<<>> when missing or empty) and
\* target_user_id (Undefined when missing)
LinkBody(link_code, target_user_id) ==
  [link_code |-> link_code, target_user_id |-> target_user_id]

NoLink ==
  [ pc |-> "idle", body |-> LinkBody(<<>>, Undefined), cred |-> NoHeader,
    userId |-> Undefined, chatbotUserId |-> Undefined ]

\* res.status(..).json(..) of the link route and of the middleware in front of it
LinkResponse(status, error, chatbot_user_id) ==
  [kind |-> "link", status |-> status, error |-> error,
   chatbot_user_id |-> chatbot_user_id]

\* The handler up to `await saveChatbotUserId`: the error it answers with (status 0
\* when it goes on to save), the link-code store afterwards, and what it saves.
LinkHandler(store, body, auth) ==
  LET isCognitoAuth == auth.method = "cognito_jwt"
      target == body.target_user_id
      userId == IF isCognitoAuth
                  THEN (IF target # Undefined THEN target ELSE auth.user_id)
                  ELSE target
      resolved == resolveLinkCode(store, body.link_code)
      Answer(status, error, after, chatbotUserId) ==
        [status |-> status, error |-> error, store |-> after, userId |-> userId,
         chatbotUserId |-> chatbotUserId]
  IN IF body.link_code = <<>>
       THEN Answer(400, "BAD_REQUEST", store, Undefined)
     ELSE IF userId = Undefined \/ userId = ""
       THEN Answer(400, "BAD_REQUEST", store, Undefined)
     ELSE IF isCognitoAuth /\ target # Undefined /\ target # "" /\ auth.user_id # target
       THEN Answer(403, "FORBIDDEN", store, Undefined)
     ELSE IF resolved.out = Null
       THEN Answer(400, "INVALID_CODE", resolved.store, Undefined)
     ELSE Answer(0, "", resolved.store, resolved.out[1])

\* the middleware answers 401
LinkRejected(l) ==
  /\ resp' = LinkResponse(401, "UNAUTHORIZED", Undefined)
  /\ links' = [links EXCEPT ![l] = NoLink]
  /\ UNCHANGED linkCodes

\* the handler runs for request `req`, authenticated as `auth`
LinkHandled(l, req, auth) ==
  LET h == LinkHandler(linkCodes, req.body, auth) IN
  /\ linkCodes' = h.store
  /\ IF h.status = 0
       THEN /\ links' = [links EXCEPT ![l] = [req EXCEPT !.pc = "saving",
                             !.userId = h.userId, !.chatbotUserId = h.chatbotUserId]]
            /\ UNCHANGED resp
       ELSE /\ links' = [links EXCEPT ![l] = NoLink]
            /\ resp' = LinkResponse(h.status, h.error, Undefined)

\* a link request arrives and runs up to its first asynchronous step
LinkArrive(l, body, cred) ==
  /\ links[l].pc = "idle"
  /\ LET req == [NoLink EXCEPT !.body = body, !.cred = cred]
     IN CASE requireAuth(cred) = "401" -> LinkRejected(l)
          [] requireAuth(cred) = "next" -> LinkHandled(l, req, StaticAuth)
          [] OTHER ->
               /\ links' = [links EXCEPT ![l] = [req EXCEPT !.pc = "auth"]]
               /\ UNCHANGED <<resp, linkCodes>>
  /\ UNCHANGED <<multiUser, sessions, clock, nextUuid, posts, polls, hooks,
                 chatbotUsers, outbound, fn>>

\* verifyCognitoJwt settles: the middleware answers 401 or calls the handler
LinkVerified(l) ==
  /\ links[l].pc = "auth"
  /\ LET auth == verifyCognitoJwt(links[l].cred) IN
       IF auth = NoAuth THEN LinkRejected(l)
                        ELSE LinkHandled(l, links[l], auth)
  /\ UNCHANGED <<multiUser, sessions, clock, nextUuid, posts, polls, hooks,
                 chatbotUsers, outbound, fn>>

\* saveChatbotUserId settles (throws = TRUE: it failed, the catch answers 500)
LinkSaved(l, throws) ==
  /\ links[l].pc = "saving"
  /\ IF throws
       THEN /\ resp' = LinkResponse(500, "INTERNAL_ERROR", Undefined)
            /\ UNCHANGED chatbotUsers
       ELSE /\ chatbotUsers' =
                 saveChatbotUserId(chatbotUsers, links[l].userId, links[l].chatbotUserId)
            /\ resp' = LinkResponse(200, "", links[l].chatbotUserId)
  /\ links' = [links EXCEPT ![l] = NoLink]
  /\ UNCHANGED <<multiUser, sessions, clock, nextUuid, posts, polls, hooks,
                 linkCodes, outbound, fn>>

----------------------------------------------------------------------------
(* Time: a second passes, unless a timer is due *)

Tick ==
  /\ clock < MaxClock
  /\ \A g \in PollSlots : polls[g].pc = "waiting" => polls[g].due > clock
  /\ clock' = clock + 1
  /\ UNCHANGED <<multiUser, sessions, nextUuid, posts, polls, hooks, resp, linkCodes, chatbotUsers, links, outbound, fn>>

\* d seconds pass, no timer being due before the end of them.  The runs that follow a
\* link code through its lifetime look at the first MaxClock seconds and at the
\* MaxClock seconds from LINK_CODE_TTL on.
Elapse(d) ==
  /\ clock + d <= LINK_CODE_TTL + MaxClock
  /\ (clock + d) % LINK_CODE_TTL <= MaxClock
  /\ \A g \in PollSlots : polls[g].pc = "waiting" => polls[g].due >= clock + d
  /\ clock' = clock + d
  /\ UNCHANGED <<multiUser, sessions, nextUuid, posts, polls, hooks, resp, linkCodes,
                 chatbotUsers, links, outbound, fn>>

----------------------------------------------------------------------------
(* The relay server *)

\* no function is being applied
NoCall == [op |-> "none", args |-> <<>>, out |-> <<>>]

\* the inputs tried
Key(k, u) == Payload(Undefined, k, Undefined, <<u>>, Null)
YES == <<"Y", "E", "S">>
QM == <<"?">>
OK == <<"o", "k">>
ValidChoices == Body("Deploy?", "WARNING", <<<<"Y", "e", "s">>, <<"N", "o">>>>, Undefined)
ValidU1 == Body("Restart?", "INFO", <<>>, "u1")
Invalid == Body("", "WARNING", <<>>, Undefined)
NoSeverity == Body("Deploy?", "", <<>>, Undefined)
LinkCodes == { <<"A", "1", "B", "2", "C", "3">> }
\* webhook payloads: the fixed user or another one says YES or ?
Payloads == {Key(k, u) : k \in {"kF", "kA", "kC"}, u \in {YES, QM}}
UserCredentials == {Jwt(u) : u \in UserIds}
\* the query keywords as a user may type them
PENDING == <<" ", "P", "e", "n", "d", "I", "N", "G", "\t">>
HANGUL == <<"U+C9C8", "U+BB38", " ">>
QueryPayloads == {Key(FIXED_USER_KEY, u) : u \in {QM, PENDING, HANGUL}}
\* a payload without any channel identity
NoKey == Payload(Undefined, Undefined, Undefined, <<YES>>, Null)
\* webhook payloads of every kind of sender: none, the fixed user, a linked user (of
\* u1) and a user nobody has linked
HookPayloads ==
  {NoKey} \cup {Key(k, u) : k \in {"kF", "kA"}, u \in {YES, QM}} \cup {Key("kC", YES)}

\* the relay after start-up
InitRelay ==
  /\ multiUser \in BOOLEAN
  /\ sessions = <<>>
  /\ clock = 0
  /\ nextUuid = 0
  /\ posts = [p \in PostSlots |-> NoPost]
  /\ polls = [g \in PollSlots |-> NoPoll]
  /\ hooks = [h \in HookSlots |-> NoHook]
  /\ resp = NoResponse
  /\ linkCodes = <<>>
  /\ chatbotUsers = <<>>
  /\ links = [l \in LinkSlots |-> NoLink]
  /\ outbound = SenderOff

Init == InitRelay /\ fn = NoCall

\* Mode A: static token, FIXED_USER_KEY; Mode B: Cognito and the user directory
InitSingleUser == Init /\ multiUser = FALSE
InitMultiUser == Init /\ multiUser = TRUE

\* Single-user mode: every operation of the relay, with the static token.
Next ==
  \/ \E s \in SessionIds, b \in {ValidChoices, Invalid, NoSeverity} :
       PostArrive("p1", s, b, StaticToken)
  \/ \E s \in SessionIds, n \in 0..MaxUuid : PollArrive("g1", s, n, <<"1">>, StaticToken)
  \/ PollRecheck("g1")
  \/ \E body \in Payloads : HookArrive("h1", body)
  \/ \E body \in QueryPayloads : HookArrive("h1", body)
  \/ Tick

Spec == InitSingleUser /\ [][Next]_vars

\* Single-user mode, the long poll against the clock: polls of several wait bounds
\* while questions are posted and answered.
NextPoll ==
  \/ \E s \in SessionIds : PostArrive("p1", s, ValidChoices, StaticToken)
  \/ \E s \in SessionIds, n \in 0..MaxUuid,
        w \in {<<"-", "1">>, <<"1">>, <<"2">>, NoParam} :
       PollArrive("g1", s, n, w, StaticToken)
  \/ PollRecheck("g1")
  \/ \E body \in {b \in Payloads : b.kakaoUserId = "kF" /\ b.utterance = <<YES>>} :
       HookArrive("h1", body)
  \/ Tick

\* a due timer fires and time goes on
SpecPoll ==
  /\ InitSingleUser /\ [][NextPoll]_vars
  /\ WF_vars(Tick) /\ WF_vars(PollRecheck("g1"))

\* Multi-user mode, concurrent question posts: requests of Cognito callers wait in
\* the auth middleware while other requests and webhook calls run.
NextRace ==
  \/ \E p \in PostSlots, s \in SessionIds, b \in {ValidU1, Invalid},
        c \in UserCredentials : PostArrive(p, s, b, c)
  \/ \E p \in PostSlots : PostVerified(p)
  \/ \E body \in {b \in Payloads : b.kakaoUserId = "kA" /\ b.utterance = <<YES>>} :
       HookArrive("h1", body)
  \/ \E t \in BOOLEAN : HookLookup1("h1", t)
  \/ \E t \in BOOLEAN, c \in LinkCodes : HookLookup2("h1", t, c)

SpecRace == InitMultiUser /\ [][NextRace]_vars

\* Either mode, the routing of webhook messages: questions of the static caller, or
\* of two Cognito users with a session each, wait at different times while every kind
\* of sender writes in.
SessionOf(cred) == IF cred.sub = "u2" THEN "s2" ELSE "s1"

NextHook ==
  \/ \E c \in IF multiUser THEN UserCredentials ELSE {StaticToken} :
       PostArrive("p1", SessionOf(c), ValidChoices, c)
  \/ PostVerified("p1")
  \/ \E body \in HookPayloads : HookArrive("h1", body)
  \/ \E t \in BOOLEAN : HookLookup1("h1", t)
  \/ \E t \in BOOLEAN, c \in LinkCodes : HookLookup2("h1", t, c)
  \/ Tick

SpecHook == Init /\ [][NextHook]_vars

\* link requests tried: the code as issued or typed in lower case, an unknown code or
\* none, for the caller or for u1
CodesTyped ==
  LinkCodes \cup { <<"a", "1", "b", "2", "c", "3">>, <<"F", "F", "0", "0", "F", "F">>, <<>> }
LinkBodies == {LinkBody(code, t) : code \in CodesTyped, t \in {Undefined, "u1"}}
\* the senders nobody has linked
LinkPayloads == {Key(k, YES) : k \in {"kC", "kD"}}

\* Multi-user mode, linking: unlinked senders are given link codes, Cognito users send
\* them to the link route, and the codes age past their TTL.
NextLink ==
  \/ \E body \in LinkPayloads : HookArrive("h1", body)
  \/ \E t \in BOOLEAN : HookLookup1("h1", t)
  \/ \E t \in BOOLEAN, c \in LinkCodes : HookLookup2("h1", t, c)
  \/ \E b \in LinkBodies, c \in UserCredentials : LinkArrive("l1", b, c)
  \/ LinkVerified("l1")
  \/ \E t \in BOOLEAN : LinkSaved("l1", t)
  \/ \E d \in {1, LINK_CODE_TTL} : Elapse(d)

SpecLink == InitMultiUser /\ [][NextLink]_vars

\* the codes drawn when a link code is issued: crypto.randomBytes(3) may give the bytes
\* of a code that is still in the store, or other ones
DrawnCodes == LinkCodes \cup { <<"D", "4", "E", "5", "F", "6">> }

\* Multi-user mode, issuing link codes: senders nobody has linked write in, again and
\* again, while the codes age past their TTL.
NextCodes ==
  \/ \E body \in LinkPayloads : HookArrive("h1", body)
  \/ \E t \in BOOLEAN : HookLookup1("h1", t)
  \/ \E t \in BOOLEAN, c \in DrawnCodes : HookLookup2("h1", t, c)
  \/ \E d \in {1, LINK_CODE_TTL} : Elapse(d)

SpecCodes == InitMultiUser /\ [][NextCodes]_vars

\* the sender linked to u1 answers YES
LinkedPayloads == {Key("kA", YES)}

\* Multi-user mode, one session used by several requests: callers poll session s1 and
\* post questions to it, for themselves, and the sender linked to u1 answers.
NextOwner ==
  \/ \E c \in UserCredentials : PollArrive("g1", "s1", NoSince, <<"1">>, c)
  \/ PollVerified("g1")
  \/ PollRecheck("g1")
  \/ \E c \in UserCredentials : PostArrive("p1", "s1", ValidChoices, c)
  \/ PostVerified("p1")
  \/ \E body \in LinkedPayloads : HookArrive("h1", body)
  \/ \E t \in BOOLEAN : HookLookup1("h1", t)
  \/ \E t \in BOOLEAN, c \in LinkCodes : HookLookup2("h1", t, c)
  \/ Tick

SpecOwner == InitMultiUser /\ [][NextOwner]_vars

\* the link requests that carry the code as issued, for the caller
IssuedBodies == {LinkBody(code, Undefined) : code \in LinkCodes}
\* the sender nobody has linked says YES or ?
UnlinkedPayloads == {Key("kC", u) : u \in {YES, QM}}
\* the credentials of u1
CredentialsOfU1 == {c \in UserCredentials : c.sub = "u1"}

\* Multi-user mode, after linking: a sender is given a link code, u1 sends it to the
\* link route, and the sender writes in again while questions of u1 wait in two
\* sessions.
NextLinked ==
  \/ \E body \in UnlinkedPayloads : HookArrive("h1", body)
  \/ \E t \in BOOLEAN : HookLookup1("h1", t)
  \/ \E t \in BOOLEAN, c \in LinkCodes : HookLookup2("h1", t, c)
  \/ \E b \in IssuedBodies, c \in CredentialsOfU1 : LinkArrive("l1", b, c)
  \/ LinkVerified("l1")
  \/ \E t \in BOOLEAN : LinkSaved("l1", t)
  \/ \E s \in SessionIds, c \in CredentialsOfU1 : PostArrive("p1", s, ValidChoices, c)
  \/ PostVerified("p1")
  \/ Tick

SpecLinked == InitMultiUser /\ [][NextLinked]_vars

----------------------------------------------------------------------------
(* local-bridge/src/index.ts: the kakao.ask_user tool.  The relay is the environment *)
(* here: each request gets some response or fails on the network.  Time is in ms.   *)

DELAYS == <<500, 1000, 2000>>
MAX_RETRIES == 3
POLL_WAIT == 25
\* the time a request or a token refresh takes when it is answered at once
FetchMs == 500

\* Math.ceil(ms / 1000) and Math.floor(ms / 1000)
FloorSec(ms) == ms \div 1000
CeilSec(ms) == (ms + 999) \div 1000

\* variant: the seconds that remain are rounded down
RemainingSec_Floor(deadline, now) == FloorSec(deadline - now)

\* Math.ceil((deadline - Date.now()) / 1000)
RemainingSec(deadline, now) == CeilSec(deadline - now)

\* variant: a 5xx response is tried again like a network error
IsRetried_ServerErrors(throws, res) == throws \/ res.status >= 500

\* withRetry: the catch is entered, and the loop goes on, only when fn() throws
IsRetried(throws, res) == throws

\* what the tool returns: status and, with ERROR, the error_code
ToolResult(status, error_code) == [status |-> status, error_code |-> error_code]

\* a response of the relay: its HTTP status and, for a poll answered 200, the number
\* of replies and the status of the session in its body
RelayResponse(status, replies, session) ==
  [status |-> status, replies |-> replies, session |-> session]

NoRes == RelayResponse(0, 0, "")

PostResponses == {RelayResponse(st, 0, "") : st \in {201, 400, 401, 403, 409, 500}}

PollResponses ==
  {RelayResponse(200, n, st) : n \in {0, 1}, st \in {"WAITING_USER", "EXPIRED", "CANCELED"}}
  \cup {RelayResponse(st, 0, "") : st \in {401, 500}}

\* the timeouts tried, in seconds: none, shorter than one poll, longer than one poll
TimeoutSecs == {0, 2, 27}

\* authSource after initAuth(): the credentials file, or a token of the environment
AuthSources == {"credentials", "env_static_token"}

\* a call of kakao.ask_user before it has run; `valid`: session_id and text are given
AskCall(timeout_sec, valid, authSource) ==
  [ op         |-> "askUser",
    args       |-> <<timeout_sec, valid>>,
    authSource |-> authSource,
    pc         |-> "called",
    request    |-> "none",      \* the request withRetry is sending: post or poll
    attempt    |-> 0,           \* withRetry `attempt`
    sends      |-> 0,           \* relayFetch calls made for this request
    now        |-> 0,           \* Date.now()
    deadline   |-> 0,
    waitSec    |-> 0,
    res        |-> NoRes,       \* the 401 that relayFetchWithRefresh holds
    accepted   |-> FALSE,       \* the question was answered 201
    clean      |-> TRUE,        \* every poll so far was answered 200 without replies
    session_id |-> "s1",
    posted     |-> 0,           \* no part of the program: the message_id the relay gave
                                \* to the first question it accepted from this call
                                \* (0: none was accepted)
    reply_id   |-> 0,           \* reply_id of the result (0: none)
    out        |-> <<>> ]

AskCalls ==
  {AskCall(t, v, a) : t \in TimeoutSecs, v \in BOOLEAN, a \in AuthSources}

\* askUser returns `result`
Returns(f, result) == [f EXCEPT !.pc = "done", !.out = <<result>>]

\* withRetry(() => relayFetchWithRefresh(..)) is called for `request`
Sends(f, request) ==
  [f EXCEPT !.pc = "fetch", !.request = request, !.attempt = 0, !.sends = 0, !.res = NoRes]

\* the head of the poll loop: while (Date.now() < deadline) { .. } return EXPIRED
PollLoop(f) ==
  LET remainingSec == RemainingSec(f.deadline, f.now)
      wait == Min(Min(POLL_WAIT, remainingSec), 60)
  IN IF f.now < f.deadline /\ wait > 0
       THEN [Sends(f, "poll") EXCEPT !.waitSec = wait]
       ELSE Returns(f, ToolResult("EXPIRED", ""))

\* withRetry has returned the response `r` of the question post
PostReturned(f, r) ==
  IF r.status = 401 THEN Returns(f, ToolResult("ERROR", "UNAUTHORIZED"))
  ELSE IF r.status = 403 THEN Returns(f, ToolResult("ERROR", "FORBIDDEN"))
  ELSE IF r.status = 409 THEN Returns(f, ToolResult("ERROR", "PENDING_EXISTS"))
  ELSE IF r.status # 201 THEN Returns(f, ToolResult("ERROR", "HTTP"))
  ELSE PollLoop([f EXCEPT !.accepted = TRUE,
                          !.deadline = f.now + f.args[1] * 1000])

\* withRetry has returned the response `r` of a poll
PollReturned(f, r) ==
  LET g == [f EXCEPT !.clean = /\ f.clean
                               /\ r.status = 200 /\ r.replies = 0
                               /\ r.session \notin {"EXPIRED", "CANCELED"}]
  IN IF r.status # 200 THEN Returns(g, ToolResult("ERROR", "HTTP"))
     ELSE IF r.replies > 0 THEN Returns(g, ToolResult("RESOLVED", ""))
     ELSE IF r.session = "EXPIRED" THEN Returns(g, ToolResult("EXPIRED", ""))
     ELSE IF r.session = "CANCELED" THEN Returns(g, ToolResult("CANCELED", ""))
     ELSE PollLoop(g)

WithRetryReturned(f, r) ==
  IF f.request = "post" THEN PostReturned(f, r) ELSE PollReturned(f, r)

\* fn() has thrown or, in the variant, returned what is tried again: withRetry sleeps
\* and goes round, or after the last attempt throws to askUser, which returns
\* NETWORK_ERROR
WithRetryCaught(f) ==
  IF f.attempt < MAX_RETRIES
    THEN [f EXCEPT !.pc = "sleep"]
    ELSE Returns([f EXCEPT !.clean = FALSE], ToolResult("ERROR", "NETWORK_ERROR"))

BridgeFrame ==
  UNCHANGED <<multiUser, sessions, clock, nextUuid, posts, polls, hooks, resp, linkCodes,
              chatbotUsers, links, outbound>>

\* the CallTool handler starts: INVALID_INPUT, or askUser posts the question
AskStart ==
  /\ fn.op = "askUser" /\ fn.pc = "called"
  /\ fn' = IF fn.args[2] THEN Sends(fn, "post")
                         ELSE Returns(fn, ToolResult("ERROR", "INVALID_INPUT"))
  /\ BridgeFrame

\* the durations a request of the call may take: answered at once, or, a poll, held
\* for its wait_sec
Durations(f) ==
  {FetchMs} \cup (IF f.request = "poll" THEN {f.waitSec * 1000} ELSE {})

\* the first relayFetch of an attempt settles after `d` ms: it throws, or the relay has
\* answered `r`
FetchSettled(r, throws, d) ==
  /\ fn.op = "askUser" /\ fn.pc = "fetch"
  /\ r \in (IF fn.request = "post" THEN PostResponses ELSE PollResponses)
  /\ d \in Durations(fn)
  /\ LET f == [fn EXCEPT !.now = @ + d, !.sends = @ + 1] IN
       fn' = IF IsRetried(throws, r) THEN WithRetryCaught(f)
             ELSE IF r.status = 401 /\ f.authSource = "credentials"
               THEN [f EXCEPT !.pc = "refresh", !.res = r]
             ELSE WithRetryReturned(f, r)
  /\ BridgeFrame

\* loadCredentials() and refreshAndSave(..) settle: with a new token (ok), or without
\* credentials or with an error, and then the 401 is returned
RefreshSettled(ok) ==
  /\ fn.op = "askUser" /\ fn.pc = "refresh"
  /\ LET f == [fn EXCEPT !.now = @ + FetchMs] IN
       fn' = IF ok THEN [f EXCEPT !.pc = "refetch"]
                   ELSE WithRetryReturned(f, f.res)
  /\ BridgeFrame

\* the relayFetch after the refresh settles: its response is returned, or it throws
\* inside the try of relayFetchWithRefresh and the 401 is returned
RefetchSettled(r, throws) ==
  /\ fn.op = "askUser" /\ fn.pc = "refetch"
  /\ r \in (IF fn.request = "post" THEN PostResponses ELSE PollResponses)
  /\ LET f == [fn EXCEPT !.now = @ + FetchMs, !.sends = @ + 1] IN
       fn' = WithRetryReturned(f, IF throws THEN f.res ELSE r)
  /\ BridgeFrame

\* sleep(DELAYS[attempt]) ends and the next attempt starts
SleepEnded ==
  /\ fn.op = "askUser" /\ fn.pc = "sleep"
  /\ fn' = [fn EXCEPT !.now = @ + DELAYS[fn.attempt + 1],
                      !.attempt = @ + 1,
                      !.pc = "fetch"]
  /\ BridgeFrame

InitBridge == InitRelay /\ multiUser = FALSE /\ fn \in AskCalls

NextBridge ==
  \/ AskStart
  \/ \E r \in PostResponses \cup PollResponses, throws \in BOOLEAN, d \in Durations(fn) :
       FetchSettled(r, throws, d)
  \/ \E ok \in BOOLEAN : RefreshSettled(ok)
  \/ \E r \in PostResponses \cup PollResponses, throws \in BOOLEAN : RefetchSettled(r, throws)
  \/ SleepEnded

\* every fetch settles (relayFetch aborts it after timeoutMs) and every sleep ends
SpecBridge == InitBridge /\ [][NextBridge]_vars /\ WF_vars(NextBridge)

\* the fixed sender picks a choice, writes free text, or asks for the question
StatusPayloads == {Key(FIXED_USER_KEY, u) : u \in {YES, OK, QM}}

\* Single-user mode, the life of a session: polls create sessions, posts put questions,
\* the fixed sender answers them with a choice or with free text.
NextStatus ==
  \/ \E s \in SessionIds, b \in {ValidChoices, Invalid} : PostArrive("p1", s, b, StaticToken)
  \/ \E s \in SessionIds : PollArrive("g1", s, 0, <<"1">>, StaticToken)
  \/ PollRecheck("g1")
  \/ \E body \in StatusPayloads : HookArrive("h1", body)
  \/ Tick

SpecStatus == InitSingleUser /\ [][NextStatus]_vars

\* Single-user mode with either sender: the push is off (NoopKakaoSender) or on
InitOutbound ==
  /\ multiUser = FALSE
  /\ sessions = <<>>
  /\ clock = 0
  /\ nextUuid = 0
  /\ posts = [p \in PostSlots |-> NoPost]
  /\ polls = [g \in PollSlots |-> NoPoll]
  /\ hooks = [h \in HookSlots |-> NoHook]
  /\ resp = NoResponse
  /\ linkCodes = <<>>
  /\ chatbotUsers = <<>>
  /\ links = [l \in LinkSlots |-> NoLink]
  /\ outbound \in {SenderOff, SenderOn}
  /\ fn = NoCall

\* the fixed sender answers YES
FixedPayloads == {Key(FIXED_USER_KEY, YES)}

\* Questions are posted and answered while the pushes of earlier questions are still
\* under way and settle in any order, each in any way.
NextOutbound ==
  \/ \E s \in SessionIds, b \in {ValidChoices, Invalid} : PostArrive("p1", s, b, StaticToken)
  \/ \E body \in FixedPayloads : HookArrive("h1", body)
  \/ \E m \in 1..MaxUuid, o \in SendOutcomes : SendSettled(m, o)
  \/ Tick

SpecOutbound == InitOutbound /\ [][NextOutbound]_vars

\* Single-user mode, two callers polling session s1: polls of two seconds, with or
\* without since, are suspended, given up by their callers and re-checked while a
\* question is posted and answered.
NextPolls ==
  \/ PostArrive("p1", "s1", ValidChoices, StaticToken)
  \/ \E g \in PollSlots, n \in {0, 2} : PollArrive(g, "s1", n, <<"2">>, StaticToken)
  \/ \E g \in PollSlots : PollRecheck(g)
  \/ \E g \in PollSlots : PollClosed(g)
  \/ \E body \in FixedPayloads : HookArrive("h1", body)
  \/ Tick

SpecPolls == InitSingleUser /\ [][NextPolls]_vars

----------------------------------------------------------------------------
(* The local bridge and the relay together, in single-user mode: the requests of    *)
(* kakao.ask_user are served by the handlers of the relay, and a request or its     *)
(* response may be lost on the way.                                                 *)

\* the calls made: a question with a timeout of 2 s for either session, with AUTH_TOKEN
AsksOnRelay ==
  {[AskCall(2, TRUE, "env_static_token") EXCEPT !.session_id = s] : s \in SessionIds}

\* the question post of the call settles.  reached: the request got to the relay, whose
\* handler ran; throws: fetch threw (the request or the response was lost, or the
\* request was aborted after timeoutMs), else the bridge has the response
AskPostSettled(reached, throws) ==
  /\ fn.op = "askUser" /\ fn.pc = "fetch" /\ fn.request = "post"
  /\ reached \/ throws
  /\ LET h == QuestionsHandler(sessions, fn.session_id, ValidChoices, StaticAuth)
         accepts == reached /\ h.status = 201
         r == RelayResponse(h.status, 0, "")
         f == [fn EXCEPT !.now = @ + FetchMs, !.sends = @ + 1,
                         !.posted = IF accepts /\ @ = 0 THEN h.message_id ELSE @]
     IN /\ accepts => nextUuid < MaxUuid
        /\ sessions' = IF reached THEN h.map ELSE sessions
        /\ nextUuid' = IF accepts THEN h.message_id ELSE nextUuid
        /\ resp' = IF reached
                     THEN PostResponse(fn.session_id, h.status, h.error, h.message_id)
                     ELSE resp
        /\ outbound' = IF accepts THEN Push(outbound, h.message_id) ELSE outbound
        /\ fn' = IF IsRetried(throws, r) THEN WithRetryCaught(f)
                                         ELSE WithRetryReturned(f, r)
  /\ UNCHANGED <<multiUser, clock, posts, polls, hooks, linkCodes, chatbotUsers, links>>

\* a poll of the call settles after d ms: the replies route (no since parameter) has
\* answered with the replies of the session, at once when there are some, and the
\* bridge takes data.replies[0]; or fetch threw
AskPollSettled(throws, d) ==
  /\ fn.op = "askUser" /\ fn.pc = "fetch" /\ fn.request = "poll"
  /\ d \in Durations(fn)
  /\ LET map1 == getOrCreateSession(sessions, fn.session_id, "IDLE", Undefined)
         session == getSession(map1, fn.session_id)
         replies == collectReplies(session.replies, NoSince)
         r == RelayResponse(200, Len(replies), session.status)
         f == [fn EXCEPT !.now = @ + d, !.sends = @ + 1]
         g == WithRetryReturned(f, r)
     IN /\ (~throws /\ replies = <<>>) => d = fn.waitSec * 1000
        /\ sessions' = map1
        /\ resp' = PollResponse(fn.session_id, 200, session.status, replies)
        /\ fn' = IF IsRetried(throws, r) THEN WithRetryCaught(f)
                 ELSE IF Len(replies) > 0 THEN [g EXCEPT !.reply_id = replies[1].reply_id]
                 ELSE g
  /\ UNCHANGED <<multiUser, clock, nextUuid, posts, polls, hooks, linkCodes, chatbotUsers,
                 links, outbound>>

\* the agent calls kakao.ask_user again after the call before has returned
AskAgain(call) ==
  /\ fn.op = "askUser" /\ fn.pc = "done"
  /\ fn' = call
  /\ BridgeFrame

InitAsk == InitRelay /\ multiUser = FALSE /\ fn \in AsksOnRelay

NextAsk ==
  \/ AskStart
  \/ \E reached \in BOOLEAN, throws \in BOOLEAN : AskPostSettled(reached, throws)
  \/ \E throws \in BOOLEAN, d \in Durations(fn) : AskPollSettled(throws, d)
  \/ SleepEnded
  \/ \E call \in AsksOnRelay : AskAgain(call)
  \/ \E body \in FixedPayloads : HookArrive("h1", body)

SpecAsk == InitAsk /\ [][NextAsk]_vars

----------------------------------------------------------------------------
(* The functions of the relay on their own: each applied to bounded inputs *)

\* the decimal digits of a natural number
RECURSIVE Digits(_)
Digits(n) ==
  IF n < 10 THEN <<DigitChars[n + 1]>>
  ELSE Append(Digits(n \div 10), DigitChars[(n % 10) + 1])

\* `wait_sec=${waitSec}`: an integer as a client writes it into the query string
Render(w) == IF w < 0 THEN <<"-">> \o Digits(0 - w) ELSE Digits(w)

\* the wait_sec parameters tried: none, and every integer up to MaxWaitInput either way
WaitParams == {NoParam} \cup {Render(w) : w \in (0 - MaxWaitInput)..MaxWaitInput}

ReplyTypes == {"TEXT", "CHOICE", "CANCEL"}

\* a Reply of the given id and type
ReplyOf(id, type) ==
  [ reply_id |-> id,
    type     |-> type,
    text     |-> IF type = "TEXT" THEN <<OK>> ELSE Null,
    choice   |-> IF type = "CHOICE" THEN <<YES>> ELSE Null ]

\* the replies lists tried: up to MaxReplies replies with distinct uuids
IdLists ==
  {ids \in UNION {[1..k -> 1..MaxUuid] : k \in 0..MaxReplies} :
     \A i, j \in DOMAIN ids : ids[i] = ids[j] => i = j}

ReplyLists == {[i \in DOMAIN ids |-> ReplyOf(ids[i], "TEXT")] : ids \in IdLists}

\* the replies tried
Replies == {ReplyOf(id, type) : id \in 1..MaxUuid, type \in ReplyTypes}

\* the questions tried
Questions ==
  {[message_id |-> m, text |-> ValidChoices.text, choices |-> ValidChoices.choices,
    severity |-> ValidChoices.severity] : m \in 1..MaxUuid}

\* a session that waits for the answer to `question`, with earlier replies
WaitingSession(replies, question) ==
  setPendingQuestion(
    [NewSession("s1", "WAITING_USER", Undefined) EXCEPT !.replies = replies], question)

\* the choice lists tried: none, plain, with blanks around a candidate, with an empty
\* candidate, and with two candidates that differ in case only
ChoiceLists ==
  { <<>>,
    <<<<"Y", "e", "s">>, <<"N", "o">>>>,
    <<<<" ", "Y", "e", "s", " ">>, <<"N", "o">>>>,
    <<<<>>, <<"N", "o">>>>,
    <<<<"y", "e", "s">>, <<"Y", "e", "s">>>> }

\* the pending questions tried by the classification: none, or one per choice list
ChoiceQuestions ==
  {Null} \cup {<<[message_id |-> 1, text |-> ValidChoices.text, choices |-> c,
                  severity |-> ValidChoices.severity]>> : c \in ChoiceLists}

\* the utterances tried
Utterances ==
  { YES, OK, <<>>, <<" ">>, <<"N", "o">>, <<"n", "O", "\t">>, <<"y", "e", "s", " ">>,
    <<" ", "Y", "e", "s">>, <<"Y", "e", "s", "s">>, <<"Y", "e">> }

\* outbound/kakaoSender.ts TokenManager.  accessToken is Null (null) or <<string>>;
\* times are in ms.
REFRESH_MARGIN_MS == 60000

\* variant: the token counts as good until the moment it expires
isExpired_NoMargin(accessToken, expiresAt, now) ==
  accessToken = Null \/ accessToken = <<"">> \/ now >= expiresAt

\* isExpired(): !this.accessToken (null, or the empty string) || Date.now() >= ..
isExpired(accessToken, expiresAt, now) ==
  accessToken = Null \/ accessToken = <<"">> \/ now >= expiresAt - REFRESH_MARGIN_MS

\* getToken(): the held token, or what refresh() obtains (`granted`) after its request
getToken(accessToken, expiresAt, now, granted) ==
  IF ~isExpired(accessToken, expiresAt, now)
    THEN [token |-> accessToken[1], refreshed |-> FALSE]
    ELSE [token |-> granted, refreshed |-> TRUE]

\* the token states tried: none, the empty string, a token; expiry never set (0), past,
\* and around the margin; at the two values of Date.now()
AccessTokens == {Null, <<"">>, <<"cached-token">>}

Nows == {100000, 100001}

ExpiresAts == {0, 99000, 159000, 159999, 160000, 160001, 160002, 220000}

\* the tokens a refresh may obtain
GrantedTokens == {"new-token"}

\* a function and its arguments; out is <<>> until it has been applied, then <<result>>
Call(op, args) == [op |-> op, args |-> args, out |-> <<>>]

\* the applications tried
Calls ==
  {Call("waitSec", <<w>>) : w \in WaitParams}
  \cup {Call("collectReplies", <<replies, sinceId>>) :
          replies \in ReplyLists, sinceId \in 0..MaxUuid}
  \cup {Call("addReply", <<WaitingSession(c[1], c[2]), c[3]>>) :
          c \in {c \in ReplyLists \X Questions \X Replies :
                   /\ Len(c[1]) < MaxReplies
                   /\ c[3].reply_id # c[2].message_id
                   /\ \A i \in DOMAIN c[1] :
                        c[1][i].reply_id \notin {c[3].reply_id, c[2].message_id}}}
  \cup {Call("classify", <<question, userText>>) :
          question \in ChoiceQuestions, userText \in Utterances}
  \cup {Call(op, <<accessToken, expiresAt, now>>) :
          op \in {"isExpired", "getToken"},
          accessToken \in AccessTokens, expiresAt \in ExpiresAts, now \in Nows}

Return(op, out) ==
  /\ fn.op = op /\ fn.out = <<>>
  /\ fn' = [fn EXCEPT !.out = <<out>>]
  /\ UNCHANGED <<multiUser, sessions, clock, nextUuid, posts, polls, hooks, resp, linkCodes, chatbotUsers, links, outbound>>

CallWaitSec == Return("waitSec", waitSec(fn.args[1]))

CallCollectReplies == Return("collectReplies", collectReplies(fn.args[1], fn.args[2]))

CallAddReply == Return("addReply", addReply(fn.args[1], fn.args[2]))

\* the answer branch's reply type and choice for the raw utterance
CallClassify == Return("classify", Classify(fn.args[1], Normalize(fn.args[2])))

CallIsExpired == Return("isExpired", isExpired(fn.args[1], fn.args[2], fn.args[3]))

CallGetToken ==
  \E granted \in GrantedTokens :
    Return("getToken", getToken(fn.args[1], fn.args[2], fn.args[3], granted))

InitPure == InitRelay /\ multiUser = FALSE /\ fn \in Calls

NextPure ==
  \/ CallWaitSec \/ CallCollectReplies \/ CallAddReply \/ CallClassify
  \/ CallIsExpired \/ CallGetToken

SpecPure == InitPure /\ [][NextPure]_vars

\* The session store on its own: getOrCreateSession and the two scans applied, in any
\* order and with any status and owner a caller may pass, to the maps that posts and
\* replies leave behind.  fn keeps the call made last and what it returned.
SessionStatuses == {"IDLE", "WAITING_USER", "RESOLVED"}

Owners == {Undefined} \cup UserIds

\* a session as the store holds it at rest: one that waits has its question, one that
\* is resolved has the reply
StoredSession(sessionId, status, ownerUserId, updatedAt) ==
  [ session_id       |-> sessionId,
    status           |-> status,
    pending_question |-> IF status = "WAITING_USER"
                           THEN <<[ message_id |-> 1,
                                    text       |-> ValidChoices.text,
                                    choices    |-> ValidChoices.choices,
                                    severity   |-> ValidChoices.severity ]>>
                           ELSE Null,
    replies          |-> IF status = "RESOLVED" THEN <<ReplyOf(2, "TEXT")>> ELSE <<>>,
    updated_at       |-> updatedAt,
    owner_user_id    |-> ownerUserId ]

\* the sessions of id `sessionId` last written at or before `t`
StoredSessions(sessionId, t) ==
  {StoredSession(sessionId, st, o, u) : st \in SessionStatuses, o \in Owners, u \in 0..t}

\* the maps tried at time t: empty, one session, or both in either insertion order
Stores(t) ==
  {<<>>}
  \cup {<<a>> : a \in StoredSessions("s1", t) \cup StoredSessions("s2", t)}
  \cup {<<a, b>> : a \in StoredSessions("s1", t), b \in StoredSessions("s2", t)}
  \cup {<<b, a>> : a \in StoredSessions("s1", t), b \in StoredSessions("s2", t)}

InitStore ==
  /\ multiUser = FALSE
  /\ clock = MaxClock
  /\ sessions \in Stores(clock)
  /\ nextUuid = 2
  /\ posts = [p \in PostSlots |-> NoPost]
  /\ polls = [g \in PollSlots |-> NoPoll]
  /\ hooks = [h \in HookSlots |-> NoHook]
  /\ resp = NoResponse
  /\ linkCodes = <<>>
  /\ chatbotUsers = <<>>
  /\ links = [l \in LinkSlots |-> NoLink]
  /\ outbound = SenderOff
  /\ fn = NoCall

StoreGetOrCreate(sessionId, initialStatus, ownerUserId) ==
  /\ sessions' = getOrCreateSession(sessions, sessionId, initialStatus, ownerUserId)
  /\ fn' = [ op   |-> "getOrCreateSession",
             args |-> <<sessionId, initialStatus, ownerUserId>>,
             out  |-> <<getSession(sessions', sessionId)>> ]
  /\ UNCHANGED <<multiUser, clock, nextUuid, posts, polls, hooks, resp, linkCodes,
                 chatbotUsers, links, outbound>>

\* findMostRecentWaitingSession() for userId = Undefined, else
\* findMostRecentWaitingSessionForUser(userId)
StoreFind(userId) ==
  /\ fn' = [ op   |-> "findMostRecentWaitingSession",
             args |-> <<userId>>,
             out  |-> IF userId = Undefined
                        THEN findMostRecentWaitingSession(sessions)
                        ELSE findMostRecentWaitingSessionForUser(sessions, userId) ]
  /\ UNCHANGED <<multiUser, sessions, clock, nextUuid, posts, polls, hooks, resp, linkCodes,
                 chatbotUsers, links, outbound>>

NextStore ==
  \/ \E s \in SessionIds, st \in SessionStatuses, o \in Owners : StoreGetOrCreate(s, st, o)
  \/ \E u \in Owners : StoreFind(u)

SpecStore == InitStore /\ [][NextStore]_vars

----------------------------------------------------------------------------
(* Properties *)

\* the positions of `replies` that the since filter lets through: those after the reply
\* whose id is sinceId, all of them when no reply has that id
VisibleTo(replies, sinceId) ==
  {i \in DOMAIN replies : \A j \in DOMAIN replies : replies[j].reply_id = sinceId => j < i}

IsPrefix(a, b) == Len(a) <= Len(b) /\ \A i \in DOMAIN a : a[i] = b[i]

\* C1: a well-formed question posted to a session that has a pending question is
\* answered 409 PENDING_EXISTS, and no session changes: the pending question (with its
\* message_id), status, replies and updated_at are those from before the call.
C1_ConflictLeavesSession ==
  [][\A s \in SessionIds, b \in PostBodies :
       (/\ PostArrive("p1", s, b, StaticToken)
        /\ ~MissingField(b)
        /\ HasPending(sessions, s))
       => /\ resp' = [kind |-> "post", status |-> 409, error |-> "PENDING_EXISTS"]
          /\ sessions' = sessions]_vars

\* a conflict was answered for a question pending since an earlier second
C1_Witness ==
  /\ resp.kind = "post" /\ resp.status = 409
  /\ \E i \in DOMAIN sessions :
       /\ sessions[i].pending_question # Null
       /\ sessions[i].updated_at < clock

\* C2: of two well-formed, authorized question posts in flight on one session that has
\* no pending question, the one whose handler runs first is accepted (201) and its
\* question becomes the pending one; the other, when its handler runs with no reply
\* recorded in between, is answered 409 and leaves the first one's question pending.
C2_ExactlyOneWins ==
  [][\A p \in PostSlots :
       LET req == posts[p]
           sid == req.session_id
           auth == verifyCognitoJwt(req.cred)
           admitted == /\ ~MissingField(req.body)
                       /\ auth # NoAuth
                       /\ (req.body.target_user_id # Undefined
                             => auth.user_id = req.body.target_user_id)
           concurrent == \E q \in PostSlots \ {p} :
                           posts[q].pc = "auth" /\ posts[q].session_id = sid
       IN (req.pc = "auth" /\ posts'[p].pc = "idle" /\ admitted) =>
            /\ (concurrent /\ ~HasPending(sessions, sid)) =>
                 /\ resp'.kind = "post" /\ resp'.status = 201
                 /\ HasPending(sessions', sid)
                 /\ getSession(sessions', sid).pending_question[1].message_id
                      = resp'.message_id
            /\ (req.rival # Null /\ Len(RepliesOf(sessions, sid)) = req.rival[1].replies) =>
                 /\ resp' = [kind |-> "post", status |-> 409, error |-> "PENDING_EXISTS"]
                 /\ sessions' = sessions
                 /\ getSession(sessions, sid).pending_question[1].message_id
                      = req.rival[1].message_id]_vars

\* one of two concurrent posts has just been accepted; the other is still in the
\* middleware
C2_Witness ==
  \E p \in PostSlots :
    /\ posts[p].pc = "auth" /\ posts[p].rival # Null
    /\ verifyCognitoJwt(posts[p].cred).user_id = posts[p].body.target_user_id
    /\ resp.kind = "post" /\ resp.status = 201
    /\ resp.message_id = posts[p].rival[1].message_id

\* C3: between handler steps, every session has a pending question if and only if its
\* status is WAITING_USER.
C3_PendingIffWaiting ==
  \A i \in DOMAIN sessions :
    (sessions[i].pending_question # Null) <=> (sessions[i].status = "WAITING_USER")

\* a waiting session with its question next to a session that was answered
C3_Witness ==
  \E i, j \in DOMAIN sessions :
    /\ sessions[i].status = "WAITING_USER" /\ sessions[i].pending_question # Null
    /\ sessions[j].status = "RESOLVED" /\ sessions[j].pending_question = Null

\* C4: addReply on a WAITING_USER session, for a reply of any type, gives status
\* RESOLVED, pending_question null, and replies = the old replies followed by exactly
\* that reply.
C4_AddReplyResolves ==
  (fn.op = "addReply" /\ fn.out # <<>>) =>
    LET session == fn.args[1]
        reply == fn.args[2]
        after == fn.out[1]
        n == Len(session.replies)
    IN session.status = "WAITING_USER" =>
         /\ after.status = "RESOLVED"
         /\ after.pending_question = Null
         /\ Len(after.replies) = n + 1
         /\ after.replies[n + 1] = reply
         /\ \A i \in 1..n : after.replies[i] = session.replies[i]

\* a CANCEL reply was recorded on a waiting session that had replies already
C4_Witness ==
  /\ fn.op = "addReply" /\ fn.out # <<>>
  /\ fn.args[1].status = "WAITING_USER" /\ fn.args[1].pending_question # Null
  /\ Len(fn.args[1].replies) = 2
  /\ fn.args[2].type = "CANCEL"

\* C5: a well-formed post on a session id the store has not seen is answered 201 and
\* creates the session as WAITING_USER with that question pending; a poll on such an id
\* is no error either (it suspends) and creates the session as IDLE with no pending
\* question and no replies.
C5_UnknownSessionCreated ==
  [][\A s \in SessionIds :
       s \notin SessionIdsOf(sessions) =>
         /\ \A b \in PostBodies :
              (PostArrive("p1", s, b, StaticToken) /\ ~MissingField(b)) =>
                /\ resp'.kind = "post" /\ resp'.status = 201 /\ resp'.session_id = s
                /\ s \in SessionIdsOf(sessions')
                /\ getSession(sessions', s).status = "WAITING_USER"
                /\ getSession(sessions', s).replies = <<>>
                /\ getSession(sessions', s).pending_question =
                     << [message_id |-> resp'.message_id, text |-> b.text,
                         choices |-> b.choices, severity |-> b.severity] >>
         /\ \A n \in 0..MaxUuid :
              PollArrive("g1", s, n, <<"1">>, StaticToken) =>
                /\ polls'["g1"].pc = "waiting" /\ resp' = resp
                /\ s \in SessionIdsOf(sessions')
                /\ getSession(sessions', s).status = "IDLE"
                /\ getSession(sessions', s).pending_question = Null
                /\ getSession(sessions', s).replies = <<>>]_vars

\* a poll created one session and an accepted post the other
C5_Witness ==
  \E i, j \in DOMAIN sessions :
    /\ sessions[i].status = "IDLE" /\ sessions[i].replies = <<>>
    /\ polls["g1"].pc = "waiting" /\ polls["g1"].session_id = sessions[i].session_id
    /\ sessions[j].status = "WAITING_USER"
    /\ resp.kind = "post" /\ resp.status = 201
    /\ resp.session_id = sessions[j].session_id

\* C6: when a suspended poll re-checks and the session holds replies that its since
\* filter lets through, it responds in that re-check (200) with a list that contains
\* each of them; and whenever a suspended poll responds with an empty list, the session
\* holds no such reply at that moment, whenever the last reply was recorded.
C6_VisibleReplyDelivered ==
  [][LET req == polls["g1"]
         replies == RepliesOf(sessions, req.session_id)
         visible == VisibleTo(replies, req.since)
     IN (req.pc = "waiting" /\ polls'["g1"] # req) =>
          /\ visible # {} =>
               /\ polls'["g1"].pc = "idle"
               /\ resp'.kind = "poll" /\ resp'.status = 200
               /\ resp'.session_id = req.session_id
               /\ \A i \in visible :
                    \E k \in DOMAIN resp'.replies : resp'.replies[k] = replies[i]
          /\ (polls'["g1"].pc = "idle" /\ resp'.replies = <<>>) => visible = {}]_vars

\* a reply was recorded at the deadline of a suspended poll, after its last re-check
\* before the deadline; the next re-check is due
C6_Witness ==
  LET req == polls["g1"] IN
  /\ req.pc = "waiting"
  /\ VisibleTo(RepliesOf(sessions, req.session_id), req.since) # {}
  /\ getSession(sessions, req.session_id).updated_at = clock
  /\ req.deadline = clock /\ req.due = clock /\ clock = 2

\* C7: a poll that suspends gets the deadline arrival time + wait bound; when it
\* responds with no visible reply in the session, that is at or after the deadline and
\* at most one re-check interval after it, with status 200, an empty list and the
\* session's status as it is, the store untouched; and a suspended poll whose deadline
\* and next re-check the clock can reach is answered eventually.
C7_EmptyPollAnswersAtDeadline ==
  /\ [][LET req == polls["g1"]
            visible == VisibleTo(RepliesOf(sessions, req.session_id), req.since)
        IN /\ (req.pc = "idle" /\ polls'["g1"].pc = "waiting") =>
                polls'["g1"].deadline = clock + waitSec(polls'["g1"].wait_sec)
           /\ (req.pc = "waiting" /\ polls'["g1"].pc = "idle" /\ visible = {}) =>
                /\ resp' = [kind |-> "poll", status |-> 200,
                            session_id |-> req.session_id,
                            session_status |->
                              getSession(sessions, req.session_id).status,
                            replies |-> <<>>]
                /\ sessions' = sessions
                /\ clock >= req.deadline
                /\ clock <= req.deadline + RecheckSec]_vars
  /\ ((/\ polls["g1"].pc = "waiting"
        /\ polls["g1"].deadline <= MaxClock
        /\ polls["g1"].due <= MaxClock)
        ~> (polls["g1"].pc = "idle"))

\* a poll with wait bound 2 was answered with an empty list at its deadline, and
\* reported the status the session had got in the meantime
C7_Witness ==
  /\ polls["g1"].pc = "idle"
  /\ resp.kind = "poll" /\ resp.status = 200 /\ resp.replies = <<>>
  /\ resp.session_status = "WAITING_USER"
  /\ clock = 2
  /\ \A i \in DOMAIN sessions : sessions[i].updated_at >= 1

\* C8: collectReplies(replies, since): when since is the reply_id at position i, the
\* result is the replies after position i, in order; when since is absent or the id of
\* no reply in the list, the result is the whole list.
C8_SinceFilter ==
  (fn.op = "collectReplies" /\ fn.out # <<>>) =>
    LET replies == fn.args[1]
        sinceId == fn.args[2]
        visible == fn.out[1]
        n == Len(replies)
    IN /\ \A i \in 1..n :
            replies[i].reply_id = sinceId =>
              /\ Len(visible) = n - i
              /\ \A k \in 1..(n - i) : visible[k] = replies[i + k]
       /\ (sinceId = NoSince \/ \A i \in 1..n : replies[i].reply_id # sinceId) =>
            visible = replies

\* since is the id of the first of three replies: the other two come back
C8_Witness ==
  /\ fn.op = "collectReplies" /\ fn.out # <<>>
  /\ Len(fn.args[1]) = 3
  /\ fn.args[2] = fn.args[1][1].reply_id
  /\ Len(fn.out[1]) = 2

\* C9: the wait bound is 25 when wait_sec is absent, and min(max(w, 0), 60) for every
\* integer w written as wait_sec, 0 and the negative ones included.
C9_WaitBoundClamped ==
  (fn.op = "waitSec" /\ fn.out # <<>>) =>
    /\ fn.args[1] = NoParam => fn.out[1] = DefaultWaitSec
    /\ \A w \in (0 - MaxWaitInput)..MaxWaitInput :
         fn.args[1] = Render(w) => fn.out[1] = Min(Max(w, 0), MaxWaitSec)

\* C10: in every step every session stays, and its replies list from before the step
\* is a prefix of the one after it; a poll response lists replies in the order in which
\* their ids were generated, which is the order of the addReply calls.
C10_RepliesAppendOnly ==
  [][/\ \A s \in SessionIdsOf(sessions) :
          /\ s \in SessionIdsOf(sessions')
          /\ IsPrefix(RepliesOf(sessions, s), RepliesOf(sessions', s))
     /\ (resp'.kind = "poll" /\ resp'.status = 200) =>
          \A i, j \in DOMAIN resp'.replies :
            i < j => resp'.replies[i].reply_id < resp'.replies[j].reply_id]_vars

\* a poll has returned the two replies of a session
C10_Witness ==
  /\ resp.kind = "poll" /\ resp.status = 200 /\ Len(resp.replies) = 2
  /\ \E i \in DOMAIN sessions :
       /\ sessions[i].session_id = resp.session_id
       /\ sessions[i].replies = resp.replies

\* a step of the webhook call in slot h: its arrival or the settling of a lookup
HookStep(h) ==
  \/ \E body \in HookPayloads : HookArrive(h, body)
  \/ \E t \in BOOLEAN : HookLookup1(h, t)
  \/ \E t \in BOOLEAN, c \in LinkCodes : HookLookup2(h, t, c)

\* the outcomes a webhook call ends with
HookOutcomes ==
  {"no_user_key", "rejected_user", "unlinked_user", "no_waiting_session",
   "query_mode", "reply_stored"}

ChoicesOf(question) == IF question = Null THEN <<>> ELSE question[1].choices

WaitingOf(map, u) ==
  {i \in DOMAIN map : map[i].status = "WAITING_USER" /\ map[i].owner_user_id = u}

\* the call in slot h ends by peeking at or answering a session among those at the
\* positions `own` of the session table, and changes no other session; with no such
\* position it selects no session and changes none
RoutedWithin(h, own) ==
  IF own = {}
    THEN resp'.outcome = "no_waiting_session" /\ UNCHANGED sessions
    ELSE /\ resp'.outcome \in {"query_mode", "reply_stored"}
         /\ \E i \in own :
              /\ resp'.session_id = sessions[i].session_id
              /\ \A j \in DOMAIN sessions : j # i => sessions'[j] = sessions[j]

\* C13: when the directory maps the sender to user A, the call selects a session that
\* waits and is owned by A, whatever the updated_at of other users' waiting sessions,
\* and selects none when A owns no waiting session.
C13_ScopedToResolvedUser ==
  [][ \A u \in UserIds :
        ( /\ hooks["h1"].pc = "lookup1"
          /\ Lookup(KakaoUserKeyIndex, hooks["h1"].userKey) = u
          /\ HookLookup1("h1", FALSE) )
        => RoutedWithin("h1", WaitingOf(sessions, u)) ]_vars

\* u1's sender peeked at u1's session while u2's session waited with a later
\* updated_at
C13_Witness ==
  /\ resp.kind = "hook" /\ resp.outcome = "query_mode" /\ resp.session_id = "s1"
  /\ \E i, j \in DOMAIN sessions :
       /\ sessions[i].session_id = "s1" /\ sessions[i].owner_user_id = "u1"
       /\ sessions[i].status = "WAITING_USER"
       /\ sessions[j].owner_user_id = "u2" /\ sessions[j].status = "WAITING_USER"
       /\ sessions[j].updated_at > sessions[i].updated_at

\* the directory maps the channel identity `key` to user u
MapsTo(key, u) ==
  \/ Lookup(KakaoUserKeyIndex, key) = u
  \/ /\ Lookup(KakaoUserKeyIndex, key) = Undefined
     /\ u \in getUserIdByChatbotUserId(chatbotUsers, key)

\* C14: in multi-user mode a call that peeks at a question or records a reply does so
\* in a session whose owner is the user its sender's identity maps to, so that no
\* sender reaches a session of a user it is not mapped to.
C14_OnlyOwnSessionsInMultiUser ==
  [][ ( /\ multiUser
        /\ HookStep("h1")
        /\ hooks'["h1"].pc = "idle"
        /\ resp'.outcome \in {"query_mode", "reply_stored"} )
      => \E u \in UserIds :
           /\ MapsTo(hooks["h1"].userKey, u)
           /\ getSession(sessions, resp'.session_id).owner_user_id = u ]_vars

\* the second lookup of the call in slot h settles without a user: it throws, or no
\* row holds the identity; c is the link code drawn
LookupsFindNobody(h, c) ==
  \/ HookLookup2(h, TRUE, c)
  \/ /\ getUserIdByChatbotUserId(chatbotUsers, hooks[h].userKey) = {Undefined}
     /\ HookLookup2(h, FALSE, c)

C16_OnlyFixedIdentityInSingleUser ==
  [][ \A body \in Payloads :
        (~multiUser /\ UserKeyOf(body) # FIXED_USER_KEY /\ HookArrive("h1", body)) =>
          /\ resp'.kind = "hook" /\ resp'.outcome = "rejected_user"
          /\ UNCHANGED <<sessions, nextUuid>> ]_vars

\* another sender was turned away while a question waited for its answer
C16_Witness ==
  /\ ~multiUser
  /\ resp.kind = "hook" /\ resp.outcome = "rejected_user"
  /\ \E i \in DOMAIN sessions :
       sessions[i].status = "WAITING_USER" /\ sessions[i].pending_question # Null

\* the link code the request in slot l carries, as resolveLinkCode looks it up
CodeOf(l) == toUpperCase(links[l].body.link_code)

\* C17: a link request resolves its code only if the store holds the code and the
\* code was created at most LINK_CODE_TTL seconds ago, it then carries the identity
\* the code was issued to, and the code is gone from the store afterwards; a request
\* whose code does not resolve is answered with an error; and a code enters the store,
\* or is renewed there, only when the webhook issues it.  So each issue of a code
\* resolves at most once and within ten minutes.
C17_LinkCodeSingleUseWithinTtl ==
  [][ /\ LinkVerified("l1") =>
           IF links'["l1"].pc = "saving"
             THEN /\ CodeOf("l1") \in DOMAIN linkCodes
                  /\ Now - linkCodes[CodeOf("l1")].created_at <= LINK_CODE_TTL
                  /\ links'["l1"].chatbotUserId = linkCodes[CodeOf("l1")].chatbot_user_id
                  /\ CodeOf("l1") \notin DOMAIN linkCodes'
                  /\ UNCHANGED resp
             ELSE /\ resp'.kind = "link" /\ resp'.status \in {400, 401, 403}
                  /\ DOMAIN linkCodes' \subseteq DOMAIN linkCodes
      /\ \A c \in DOMAIN linkCodes' :
           (c \notin DOMAIN linkCodes \/ linkCodes'[c] # linkCodes[c]) =>
             /\ \E t \in BOOLEAN, d \in LinkCodes : HookLookup2("h1", t, d)
             /\ linkCodes'[c].created_at = Now ]_vars

\* a code issued to kC was resolved ten minutes or more after the start, and the store
\* no longer holds it
C17_Witness ==
  /\ links["l1"].pc = "saving" /\ links["l1"].chatbotUserId = "kC"
  /\ CodeOf("l1") \notin DOMAIN linkCodes
  /\ clock >= LINK_CODE_TTL

\* the call in slot h ends without a link code, on the waiting session of user u that
\* was updated last (query or answer), or on none when no session of u waits
RoutedToMostRecentOf(h, u) ==
  /\ UNCHANGED linkCodes
  /\ IF WaitingOf(sessions, u) = {}
       THEN resp'.outcome = "no_waiting_session" /\ UNCHANGED sessions
       ELSE /\ resp'.outcome \in {"query_mode", "reply_stored"}
            /\ \E i \in WaitingOf(sessions, u) :
                 /\ resp'.session_id = sessions[i].session_id
                 /\ \A j \in WaitingOf(sessions, u) :
                      sessions[i].updated_at >= sessions[j].updated_at

\* a link request that ends with 200 has saved the identity it resolved on the row of
\* its user
LinkSuccessSaves ==
  \A t \in BOOLEAN :
    (LinkSaved("l1", t) /\ resp'.status = 200) =>
      /\ links["l1"].userId \in DOMAIN chatbotUsers'
      /\ chatbotUsers'[links["l1"].userId] = links["l1"].chatbotUserId

C19_MismatchRejectedBeforeMutation ==
  [][ \A p \in PostSlots :
        ( /\ posts[p].pc = "auth"
          /\ posts[p].cred.kind = "jwt"
          /\ ~MissingField(posts[p].body)
          /\ posts[p].body.target_user_id \notin {Undefined, "", posts[p].cred.sub}
          /\ PostVerified(p) )
        => /\ resp' = PostResponse(posts[p].session_id, 403, "FORBIDDEN", 0)
           /\ UNCHANGED <<sessions, nextUuid>> ]_vars

\* u2's post for u1 was refused, and the session it named has not been created
C19_Witness ==
  /\ resp.kind = "post" /\ resp.status = 403 /\ resp.error = "FORBIDDEN"
  /\ sessions = <<>>

\* C20: in multi-user mode a post of a Cognito caller without target_user_id is not
\* accepted: it is not answered 201, installs no question and creates no session.
C20_TargetUserRequired ==
  [][ ( /\ multiUser
        /\ posts["p1"].pc = "auth"
        /\ posts["p1"].cred.kind = "jwt"
        /\ posts["p1"].body.target_user_id = Undefined
        /\ PostVerified("p1") )
      => resp'.status # 201 /\ UNCHANGED sessions ]_vars

\* C21: a post without text (missing or empty) or without severity is answered
\* 400 BAD_REQUEST, and the session table is the same afterwards: no session is
\* created and no field of any session changes.
C21_InvalidPostLeavesSessions ==
  [][ \A s \in SessionIds, b \in {Invalid, NoSeverity} :
        PostArrive("p1", s, b, StaticToken) =>
          /\ resp' = PostResponse(s, 400, "BAD_REQUEST", 0)
          /\ UNCHANGED <<sessions, nextUuid>> ]_vars

\* a post was refused as invalid while one session waits and the other has not been
\* created
C21_Witness ==
  /\ resp.kind = "post" /\ resp.status = 400 /\ resp.error = "BAD_REQUEST"
  /\ Len(sessions) = 1
  /\ sessions[1].status = "WAITING_USER" /\ sessions[1].pending_question # Null

\* the post of `body` to session `s` passes validation and finds no question pending
Accepts(s, body) ==
  /\ ~MissingField(body)
  /\ s \in SessionIdsOf(sessions) => ~PendingExists(getSession(sessions, s))

\* C22: an accepted post is answered with the same 201 {session_id, message_id,
\* WAITING_USER} and leaves its session WAITING_USER with the question pending whether
\* the sender is disabled or the push succeeds or fails: the response is sent in the
\* step that starts the push, and the step in which a push settles (resolved ok,
\* resolved failed, or rejected) changes only the log and the set of pushes under way.
C22_DeliveryNeverChangesOutcome ==
  [][ /\ \A s \in SessionIds :
           (Accepts(s, ValidChoices) /\ PostArrive("p1", s, ValidChoices, StaticToken)) =>
             /\ resp' = PostResponse(s, 201, "", nextUuid + 1)
             /\ getSession(sessions', s).status = "WAITING_USER"
             /\ getSession(sessions', s).pending_question # Null
             /\ getSession(sessions', s).pending_question[1].message_id = nextUuid + 1
             /\ outbound' = IF outbound.enabled
                              THEN [outbound EXCEPT !.sending = @ \cup {nextUuid + 1}]
                              ELSE [outbound EXCEPT !.log = "sender_disabled"]
      /\ \A m \in 1..MaxUuid, o \in SendOutcomes :
           SendSettled(m, o) =>
             /\ UNCHANGED <<sessions, resp, nextUuid, posts, polls, hooks>>
             /\ outbound'.log = IF o = "ok" THEN "sender_ok" ELSE "send_failed" ]_vars

\* the push of the question that was accepted last has failed: the response is still
\* its 201 and the question still waits in its session
C22_Witness ==
  /\ outbound.log = "send_failed"
  /\ resp.kind = "post" /\ resp.status = 201
  /\ resp.message_id \notin outbound.sending
  /\ getSession(sessions, resp.session_id).status = "WAITING_USER"
  /\ getSession(sessions, resp.session_id).pending_question # Null
  /\ getSession(sessions, resp.session_id).pending_question[1].message_id = resp.message_id

\* C23: getOrCreateSession is idempotent per session_id.  The first call for an id
\* adds a session with the status and owner passed, no pending question and no replies,
\* and leaves the other sessions alone; every later call for that id, whatever status
\* and owner it passes, returns the session as it is and changes nothing in the map.
C23_GetOrCreateIdempotent ==
  [][ \A s \in SessionIds, st \in SessionStatuses, o \in Owners :
        StoreGetOrCreate(s, st, o) =>
          IF s \in SessionIdsOf(sessions)
            THEN /\ sessions' = sessions
                 /\ fn'.out = <<getSession(sessions, s)>>
            ELSE /\ fn'.out = <<[ session_id       |-> s,
                                  status           |-> st,
                                  pending_question |-> Null,
                                  replies          |-> <<>>,
                                  updated_at       |-> clock,
                                  owner_user_id    |-> o ]>>
                 /\ SessionIdsOf(sessions') = SessionIdsOf(sessions) \cup {s}
                 /\ getSession(sessions', s) = fn'.out[1]
                 /\ \A t \in SessionIdsOf(sessions) :
                      getSession(sessions', t) = getSession(sessions, t) ]_vars

\* a later call that passed another status and another owner got back the session
\* that was resolved some time ago
C23_Witness ==
  /\ fn.op = "getOrCreateSession"
  /\ fn.out[1].status # fn.args[2]
  /\ fn.out[1].owner_user_id # fn.args[3]
  /\ fn.out[1].replies # <<>>
  /\ fn.out[1].updated_at < clock

\* the positions of the sessions a scan for `userId` looks at: those that wait, of any
\* owner for the global scan (Undefined), else of that owner
InScope(map, userId) ==
  {i \in 1..Len(map) : /\ map[i].status = "WAITING_USER"
                       /\ (userId # Undefined => map[i].owner_user_id = userId)}

\* C30: the scan for the most recent waiting session, global or of one user, returns
\* nothing exactly when no session in its scope has status WAITING_USER; otherwise it
\* returns a session of the map that is in scope and waits, and whose updated_at is at
\* least that of every other such session.
C30_MostRecentWaiting ==
  fn.op = "findMostRecentWaitingSession" =>
    LET scope == InScope(sessions, fn.args[1]) IN
      /\ fn.out = Null <=> scope = {}
      /\ fn.out # Null =>
           /\ \E i \in scope : sessions[i] = fn.out[1]
           /\ \A j \in scope : fn.out[1].updated_at >= sessions[j].updated_at

\* two sessions of u1 wait, the one created second was written later, and the scan
\* for u1 returned it
C30_Witness ==
  /\ fn.op = "findMostRecentWaitingSession" /\ fn.args[1] = "u1"
  /\ Len(sessions) = 2
  /\ InScope(sessions, "u1") = {1, 2}
  /\ sessions[1].updated_at < sessions[2].updated_at
  /\ fn.out = <<sessions[2]>>

\* C24: a message whose trimmed, case-folded utterance is a query keyword changes
\* nothing but the response: every session keeps its status, pending question, replies
\* and updated_at, no id is drawn, and the response shows the pending question (text and
\* choices) of the most recent waiting session, so that a repetition right after
\* another query gets the very same response.
C24_QueryNeverMutates ==
  [][ \A body \in QueryPayloads :
        HookArrive("h1", body) =>
          /\ UNCHANGED <<sessions, nextUuid, posts, polls, hooks, linkCodes, outbound>>
          /\ LET found == findMostRecentWaitingSession(sessions) IN
               resp' = IF found = Null
                         THEN HookResponse("no_waiting_session", Undefined, Null)
                         ELSE HookResponse("query_mode", found[1].session_id,
                                           found[1].pending_question)
          /\ (resp.kind = "hook" /\ resp.outcome = "query_mode") => resp' = resp ]_vars

\* a query was answered with the second question of a session, which still waits and
\* still has the reply to its first question only
C24_Witness ==
  /\ resp.kind = "hook" /\ resp.outcome = "query_mode"
  /\ resp.detail # Null /\ resp.detail[1].message_id > 1
  /\ getSession(sessions, resp.session_id).status = "WAITING_USER"
  /\ getSession(sessions, resp.session_id).pending_question = resp.detail
  /\ Len(getSession(sessions, resp.session_id).replies) = 1

\* C25: every session's status is IDLE, WAITING_USER or RESOLVED and every recorded
\* reply is of type TEXT or CHOICE: nothing sets a status EXPIRED or CANCELED or
\* records a CANCEL reply.
C25_StatusesAndReplyTypes ==
  \A i \in 1..Len(sessions) :
    /\ sessions[i].status \in {"IDLE", "WAITING_USER", "RESOLVED"}
    /\ \A k \in 1..Len(sessions[i].replies) :
         sessions[i].replies[k].type \in {"TEXT", "CHOICE"}

\* a poll has created an idle session next to one that was answered with a choice and
\* with free text
C25_Witness ==
  \E i, j \in 1..Len(sessions) :
    /\ sessions[i].status = "IDLE"
    /\ sessions[j].status = "RESOLVED"
    /\ \E k, l \in 1..Len(sessions[j].replies) :
         /\ sessions[j].replies[k].type = "TEXT"
         /\ sessions[j].replies[l].type = "CHOICE"

\* the status of session `s` in `map`, "absent" when the map has no such session
StatusOf(map, s) == IF s \in SessionIdsOf(map) THEN getSession(map, s).status ELSE "absent"

\* C26: a session's status becomes WAITING_USER only in a step that accepts a question
\* for it (the post is answered 201 and its new question is pending afterwards); it
\* leaves WAITING_USER only in a step that records a reply in it, and then it is
\* RESOLVED; and no step gives the status IDLE to a session that had another status.
C26_StatusTransitions ==
  [][ \A s \in SessionIds :
        LET before == StatusOf(sessions, s)
            after  == StatusOf(sessions', s)
        IN /\ (before # "WAITING_USER" /\ after = "WAITING_USER") =>
                /\ resp' = PostResponse(s, 201, "", nextUuid + 1)
                /\ getSession(sessions', s).pending_question # Null
                /\ getSession(sessions', s).pending_question[1].message_id = nextUuid + 1
           /\ (before = "WAITING_USER" /\ after # "WAITING_USER") =>
                /\ after = "RESOLVED"
                /\ Len(getSession(sessions', s).replies)
                     = Len(getSession(sessions, s).replies) + 1
                /\ resp'.kind = "hook" /\ resp'.outcome = "reply_stored"
           /\ (after = "IDLE") => before \in {"absent", "IDLE"}
           /\ (before # "absent") => after # "absent" ]_vars

\* a session that was answered waits again with its second question, which the last
\* response accepted, next to a session that a poll created idle
C26_Witness ==
  /\ Len(sessions) = 2
  /\ \E i, j \in 1..2 :
       /\ sessions[i].status = "WAITING_USER" /\ Len(sessions[i].replies) = 1
       /\ resp = PostResponse(sessions[i].session_id, 201, "",
                              sessions[i].pending_question[1].message_id)
       /\ sessions[j].status = "IDLE"

ToolStatuses == {"RESOLVED", "EXPIRED", "CANCELED", "ERROR"}

C28_AtMostFourSends ==
  fn.op = "askUser" =>
    /\ fn.sends <= MAX_RETRIES + 1
    /\ fn.pc \notin {"refresh", "refetch"}
    /\ (fn.out # <<>> /\ fn.out[1].error_code = "NETWORK_ERROR") => fn.attempt = MAX_RETRIES

\* C28, amended: withRetry makes at most 4 attempts (one and at most three retries,
\* after 0.5 s, 1 s and 2 s); it goes round only when the attempt threw, and every HTTP
\* response ends it; NETWORK_ERROR is reported only when the fourth attempt threw.
\* Within an attempt a 401 is, with credentials-file authentication only, followed by a
\* token refresh and one more send, so a request is sent at most 5 times, and at most
\* 4 times with a token of the environment.
C28_RetryOnlyOnNetworkError ==
  /\ [](fn.op = "askUser" =>
          /\ fn.attempt <= MAX_RETRIES
          /\ fn.sends <= fn.attempt + 2
          /\ fn.authSource # "credentials" => fn.sends <= fn.attempt + 1
          /\ fn.pc \in {"refresh", "refetch"} =>
               fn.authSource = "credentials" /\ fn.res.status = 401
          /\ (fn.out # <<>> /\ fn.out[1].error_code = "NETWORK_ERROR") =>
               fn.attempt = MAX_RETRIES /\ fn.sends = MAX_RETRIES + 1)
  /\ [][ /\ \A r \in PostResponses \cup PollResponses, d \in Durations(fn) :
              FetchSettled(r, FALSE, d) =>
                /\ fn'.pc # "sleep"
                /\ fn'.pc = "refresh" <=> (r.status = 401 /\ fn.authSource = "credentials")
                /\ fn'.pc = "fetch" => (fn'.request = "poll" /\ fn'.attempt = 0 /\ fn'.sends = 0)
         /\ \A r \in PostResponses \cup PollResponses, d \in Durations(fn) :
              FetchSettled(r, TRUE, d) =>
                IF fn.attempt < MAX_RETRIES
                  THEN fn'.pc = "sleep"
                  ELSE fn'.out = <<ToolResult("ERROR", "NETWORK_ERROR")>>
         /\ SleepEnded =>
              /\ fn'.now - fn.now = (IF fn.attempt = 0 THEN 500
                                     ELSE IF fn.attempt = 1 THEN 1000 ELSE 2000)
              /\ fn'.attempt = fn.attempt + 1 /\ fn'.sends = fn.sends ]_vars

\* three attempts failed on the network, the fourth was answered 401, the token was
\* refreshed and the request sent a fifth time
C28_Witness ==
  /\ fn.op = "askUser" /\ fn.pc = "done"
  /\ fn.attempt = MAX_RETRIES /\ fn.sends = MAX_RETRIES + 2
  /\ fn.out[1].status = "ERROR"

\* C29: isExpired() is true exactly when no token is held (the field is null or the
\* empty string) or the current time has reached the expiry less the 60-second margin;
\* and whenever isExpired() is false, getToken() returns the held token without a
\* refresh request.
C29_TokenExpiry ==
  /\ (fn.op = "isExpired" /\ fn.out # <<>>) =>
       (fn.out[1] <=> \/ fn.args[1] \in {Null, <<"">>}
                      \/ fn.args[3] >= fn.args[2] - 60 * 1000)
  /\ (fn.op = "getToken" /\ fn.out # <<>>) =>
       /\ ~isExpired(fn.args[1], fn.args[2], fn.args[3]) =>
            fn.out[1] = [token |-> fn.args[1][1], refreshed |-> FALSE]
       /\ isExpired(fn.args[1], fn.args[2], fn.args[3]) => fn.out[1].refreshed

\* with a token that expires 60.001 s from now, getToken has returned it without a
\* refresh
C29_Witness ==
  /\ fn.op = "getToken" /\ fn.out # <<>>
  /\ fn.args[1] = <<"cached-token">>
  /\ fn.args[2] - fn.args[3] = REFRESH_MARGIN_MS + 1
  /\ fn.out[1] = [token |-> "cached-token", refreshed |-> FALSE]

\* C31: a webhook call that ends because the message carries no channel identity,
\* because the sender has to be linked first, or because no waiting session was found,
\* leaves the sessions as they were: the same sessions, each with the same status,
\* pending question, replies and updated_at.
C31_UnroutedMessageLeavesSessions ==
  [][ ( /\ HookStep("h1")
        /\ hooks'["h1"].pc = "idle"
        /\ resp'.outcome \in {"no_user_key", "unlinked_user", "no_waiting_session"} )
      => UNCHANGED sessions ]_vars

\* a message found no waiting session although a session exists, later than the
\* session's last change
C31_Witness ==
  /\ hooks["h1"].pc = "idle"
  /\ resp.kind = "hook" /\ resp.outcome = "no_waiting_session"
  /\ sessions # <<>>
  /\ \A i \in DOMAIN sessions : sessions[i].updated_at < Now

\* C32: once the caller has given up the connection of a suspended poll, no re-check
\* of that request runs any more: none is rescheduled and none answers.
C32_AbandonedPollStops ==
  [][ \A g \in PollSlots : polls[g].closed => ~PollRecheck(g) ]_vars

\* the replies of session sessionId that come after the reply whose id is sinceId (all
\* of them when no reply has that id), in their order
RepliesSince(map, sessionId, sinceId) ==
  LET replies == RepliesOf(map, sessionId)
      visible == Cardinality(VisibleTo(replies, sinceId))
  IN SubSeq(replies, Len(replies) - visible + 1, Len(replies))

\* C33: a step of a poll (its arrival, a re-check, its caller closing) leaves every
\* session that exists as it is (status, pending question, replies, owner_user_id,
\* updated_at), and the list a poll answers with is the part of the session's replies
\* after `since`, which is still stored afterwards: polls that run one after another or
\* side by side on the same session, with the same since and no reply stored in
\* between, are answered with the same list.
C33_PollsReadOnly ==
  [][ \A g \in PollSlots :
        /\ \A s \in SessionIds, n \in 0..MaxUuid :
             PollArrive(g, s, n, <<"2">>, StaticToken) =>
               /\ IsPrefix(sessions, sessions')
               /\ polls'[g].pc = "idle" =>
                    /\ resp'.replies = RepliesSince(sessions, s, n)
                    /\ resp'.replies = RepliesSince(sessions', s, n)
        /\ PollRecheck(g) =>
             /\ sessions' = sessions
             /\ polls'[g].pc = "idle" =>
                  resp'.replies = RepliesSince(sessions', polls[g].session_id, polls[g].since)
        /\ PollClosed(g) => sessions' = sessions ]_vars

\* two polls with the same since were suspended side by side on the same session; one
\* has been answered with the reply that was stored meanwhile, the other one is still
\* suspended and will find the same reply
C33_Witness ==
  /\ polls["g1"].pc = "idle" /\ polls["g2"].pc = "waiting"
  /\ polls["g2"].session_id = "s1" /\ polls["g2"].since = NoSince
  /\ resp.kind = "poll" /\ resp.status = 200 /\ resp.session_id = "s1"
  /\ resp.replies # <<>>
  /\ resp.replies = RepliesSince(sessions, "s1", NoSince)

\* C34: a link request whose save fails (500) leaves the link code it carried valid:
\* the code still resolves to the sender it was issued for.
C34_FailedSaveKeepsCode ==
  [][ LinkSaved("l1", TRUE) =>
        resolveLinkCode(linkCodes', links["l1"].body.link_code).out
          = <<links["l1"].chatbotUserId>> ]_vars

\* C35: issuing a link code leaves every code that is in the store and has not expired
\* bound to the sender it was issued for.
C35_IssuingKeepsLiveCodes ==
  [][ HookStep("h1") =>
        \A c \in DOMAIN linkCodes :
          ~(Now - linkCodes[c].created_at > LINK_CODE_TTL) =>
            /\ c \in DOMAIN linkCodes'
            /\ linkCodes'[c].chatbot_user_id = linkCodes[c].chatbot_user_id ]_vars

\* C36: a session is WAITING_USER exactly while it has a pending question; a reply is
\* added only to a session that is WAITING_USER with a pending question, one reply at
\* a time, and it takes the pending question away; a question is accepted only for a
\* session without a pending question, and new sessions start without replies.  So
\* every reply of a session answers an accepted question of its own, and a session has
\* at most as many replies as questions accepted for it.
C36_RepliesAnswerPendingQuestions ==
  /\ [](\A i \in DOMAIN sessions :
          sessions[i].status = "WAITING_USER" <=> sessions[i].pending_question # Null)
  /\ [][ /\ \A i \in DOMAIN sessions :
              /\ sessions'[i].replies # sessions[i].replies =>
                   /\ sessions[i].status = "WAITING_USER"
                   /\ sessions[i].pending_question # Null
                   /\ \E reply \in {resp'.detail[1]} :
                        sessions'[i].replies = Append(sessions[i].replies, reply)
                   /\ sessions'[i].pending_question = Null
              /\ (/\ sessions'[i].pending_question # Null
                  /\ sessions'[i].pending_question # sessions[i].pending_question)
                   => sessions[i].pending_question = Null
         /\ \A i \in DOMAIN sessions' \ DOMAIN sessions : sessions'[i].replies = <<>>
     ]_vars

\* two questions were accepted for a session, one after the other, and each one has
\* been answered by one reply
C36_Witness ==
  \E i \in DOMAIN sessions :
    /\ Len(sessions[i].replies) = 2
    /\ sessions[i].status = "RESOLVED" /\ sessions[i].pending_question = Null
    /\ nextUuid = 4
    /\ Len(sessions) = 2

\* C37: a webhook call that ends by storing a reply adds exactly that one reply, at the
\* end of the replies of the session it names, and leaves every other session (waiting
\* ones too) and the set of sessions as they were.
C37_AnswerTouchesOneSession ==
  [][ ( /\ HookStep("h1")
        /\ hooks'["h1"].pc = "idle"
        /\ resp'.outcome = "reply_stored" )
      => /\ DOMAIN sessions' = DOMAIN sessions
         /\ \E i \in DOMAIN sessions :
              /\ sessions[i].session_id = resp'.session_id
              /\ sessions'[i].replies = Append(sessions[i].replies, resp'.detail[1])
              /\ \A j \in DOMAIN sessions \ {i} : sessions'[j] = sessions[j] ]_vars

\* the sender u1 is linked to has answered one of u1's two waiting sessions; the other
\* one still waits with its question and without a reply
C37_Witness ==
  /\ multiUser
  /\ hooks["h1"].pc = "idle"
  /\ resp.kind = "hook" /\ resp.outcome = "reply_stored"
  /\ \E i, j \in DOMAIN sessions :
       /\ sessions[i].session_id = resp.session_id
       /\ sessions[i].replies = <<resp.detail[1]>>
       /\ sessions[j].session_id # resp.session_id
       /\ sessions[j].owner_user_id = sessions[i].owner_user_id
       /\ sessions[j].status = "WAITING_USER" /\ sessions[j].pending_question # Null
       /\ sessions[j].replies = <<>>

\* C38: in multi-user mode, when the post of an authenticated caller is accepted (201)
\* for a session, the session's owner_user_id is that caller, whether the post created
\* the session or found it.
C38_AcceptedPostOwnsSession ==
  [][ \A p \in PostSlots :
        ( /\ multiUser
          /\ PostVerified(p)
          /\ resp'.kind = "post" /\ resp'.status = 201 )
        => getSession(sessions', posts[p].session_id).owner_user_id
             = verifyCognitoJwt(posts[p].cred).user_id ]_vars

\* C39: the reply a kakao.ask_user call returns with RESOLVED was recorded after the
\* relay had accepted a question of this call (reply ids and message ids are handed out
\* in the order of the events).
C39_ReplyAnswersOwnQuestion ==
  (fn.op = "askUser" /\ fn.pc = "done" /\ fn.out[1].status = "RESOLVED") =>
    /\ fn.posted # 0
    /\ fn.reply_id > fn.posted

\* C40: a kakao.ask_user call of which the relay has accepted a question does not end
\* with ERROR PENDING_EXISTS.
C40_NoConflictWithOwnPost ==
  (fn.op = "askUser" /\ fn.pc = "done" /\ fn.posted # 0) =>
    fn.out[1].error_code # "PENDING_EXISTS"

====
